---------------------------- MODULE Spec2Model ----------------------------
(***************************************************************************)
(* Verification model of APRSCN/aprsutils: the Base-91 codec               *)
(* (base91.go), the callsign validator (callsign.go) and the packet        *)
(* decoder of package parser (Parse, parseHeader, parseBody and the        *)
(* sub-decoders).                                                          *)
(*                                                                         *)
(* A Go string is modelled as a sequence of byte values (0..255); input    *)
(* lines are byte strings in which one character is one byte.  A Go error  *)
(* is modelled by its message, the nil error by NoErr.  A run-time panic   *)
(* (index out of range, write to a nil map) is the outcome "panic".        *)
(***************************************************************************)
EXTENDS Integers, Sequences, FiniteSets, TLC

(***************************************************************************)
(* Bytes and Go standard-library string helpers                            *)
(***************************************************************************)
\* The printable ASCII characters, 0x20..0x7e, in code order.
Ascii ==
  << " ", "!", "\"", "#", "$", "%", "&", "'", "(", ")", "*", "+", ",", "-",
     ".", "/", "0", "1", "2", "3", "4", "5", "6", "7", "8", "9", ":", ";",
     "<", "=", ">", "?", "@", "A", "B", "C", "D", "E", "F", "G", "H", "I",
     "J", "K", "L", "M", "N", "O", "P", "Q", "R", "S", "T", "U", "V", "W",
     "X", "Y", "Z", "[", "\\", "]", "^", "_", "backquote", "a", "b", "c", "d", "e",
     "f", "g", "h", "i", "j", "k", "l", "m", "n", "o", "p", "q", "r", "s",
     "t", "u", "v", "w", "x", "y", "z", "{", "|", "}", "~" >>

\* The byte value of a printable character.
Ord(c) == 31 + CHOOSE i \in 1..Len(Ascii) : Ascii[i] = c

\* A byte string written as a tuple of characters.
Str(cs) == [i \in 1..Len(cs) |-> Ord(cs[i])]

NoErr == ""

Max(a, b) == IF a >= b THEN a ELSE b

IsDigit(c) == c >= 48 /\ c <= 57
IsUpper(c) == c >= 65 /\ c <= 90
IsLower(c) == c >= 97 /\ c <= 122
IsAlnum(c) == IsDigit(c) \/ IsUpper(c) \/ IsLower(c)
\* \s of Go regexp: [\t\n\f\r ]
IsSpace(c) == c \in {9, 10, 12, 13, 32}
\* unicode.IsSpace on a byte below 0x80, as strings.TrimSpace uses it
IsTrimSpace(c) == c \in {9, 10, 11, 12, 13, 32}

\* s[from:to] of Go on 0-based offsets, as a 1-based sequence
Slice(s, from, to) == SubSeq(s, from + 1, to)
\* s[from:]
From(s, from) == SubSeq(s, from + 1, Len(s))

\* every byte of s satisfies the class
All(s, Class(_)) == \A i \in 1..Len(s) : Class(s[i])

\* strings.Repeat(c, n) for a one-byte string
Repeat(c, n) == [i \in 1..n |-> c]

\* strings.TrimLeft(s, cutset)
TrimLeft(s, cutset) ==
  LET keep == {i \in 1..Len(s) : s[i] \notin cutset}
  IN  IF keep = {} THEN <<>>
      ELSE SubSeq(s, CHOOSE i \in keep : \A j \in keep : i <= j, Len(s))

\* strings.TrimRight(s, cutset)
TrimRight(s, cutset) ==
  LET keep == {i \in 1..Len(s) : s[i] \notin cutset}
  IN  IF keep = {} THEN <<>>
      ELSE SubSeq(s, 1, CHOOSE i \in keep : \A j \in keep : i >= j)

\* strings.Trim(s, cutset)
Trim(s, cutset) == TrimRight(TrimLeft(s, cutset), cutset)

\* strings.TrimSpace(s)
TrimSpace(s) == Trim(s, {9, 10, 11, 12, 13, 32})

\* strings.Index(s, c) for a one-byte separator: 0-based offset or -1
Index(s, c) ==
  LET hits == {i \in 1..Len(s) : s[i] = c}
  IN  IF hits = {} THEN -1
      ELSE (CHOOSE i \in hits : \A j \in hits : i <= j) - 1

\* strings.Count(s, c) for a one-byte separator
Count(s, c) == Cardinality({i \in 1..Len(s) : s[i] = c})

\* strings.Split(s, sep) for a one-byte separator: never empty
RECURSIVE Split(_, _)
Split(s, c) ==
  LET pos == Index(s, c)
  IN  IF pos < 0 THEN <<s>>
      ELSE <<Slice(s, 0, pos)>> \o Split(From(s, pos + 1), c)

Reverse(s) == [i \in 1..Len(s) |-> s[Len(s) + 1 - i]]

(***************************************************************************)
(* Base-91 codec (base91.go)                                               *)
(***************************************************************************)
RECURSIVE Pow(_, _)
Pow(b, e) == IF e = 0 THEN 1 ELSE b * Pow(b, e - 1)

\* B91Term with the inner loop run once too often
B91TermOffByOne(text, i) == (text[i] - 33) * Pow(91, Len(text) - i + 1)

\* value of text[i] in the inner loop of ToDecimal: (char-33) * 91^(len-1-i)
B91Term(text, i) == (text[i] - 33) * Pow(91, Len(text) - i)

RECURSIVE B91Sum(_, _)
B91Sum(text, i) ==
  IF i > Len(text) THEN 0 ELSE B91Term(text, i) + B91Sum(text, i + 1)

\* B91Invalid with the upper limit one too high
B91InvalidLoose(char) == char <= 32 \/ char >= 125

\* the character test of ToDecimal
B91Invalid(char) == char <= 32 \/ char >= 124

\* ToDecimal(text) (int, error)
ToDecimal(text) ==
  IF text = <<>> THEN [val |-> 0, err |-> NoErr]
  ELSE LET t == TrimLeft(text, {33})
       IN  IF \E i \in 1..Len(t) : B91Invalid(t[i])
           THEN [val |-> 0, err |-> "invalid character in sequence"]
           ELSE [val |-> B91Sum(t, 1), err |-> NoErr]

\* the digit loop of FromDecimal: least significant digit first
RECURSIVE B91Digits(_)
B91Digits(temp) ==
  IF temp > 0 THEN <<33 + (temp % 91)>> \o B91Digits(temp \div 91)
  ELSE <<>>

\* FromDecimal(number, width...) (string, error); width holds the variadic
\* arguments, of which only the first is read
FromDecimal(n, width) ==
  LET w == IF Len(width) > 0 THEN width[1] ELSE 1
  IN  IF w < 0 THEN [str |-> <<>>, err |-> "width must be non-negative"]
      ELSE IF n < 0
      THEN [str |-> <<>>, err |-> "expected number to be positive integer"]
      ELSE IF n = 0 THEN [str |-> Repeat(33, Max(1, w)), err |-> NoErr]
      ELSE LET result == TrimLeft(Reverse(B91Digits(n)), {33})
           IN  [str |-> IF Len(result) < w
                        THEN Repeat(33, w - Len(result)) \o result
                        ELSE result,
                err |-> NoErr]

(***************************************************************************)
(* The decoded packet (type Parsed) and the results of the decoders        *)
(***************************************************************************)
\* &Parsed{}: every field at its zero value.  Go strings are byte
\* sequences, nil slices and the nil SubPacket pointer are <<>>.
ZeroParsed ==
  [Raw |-> <<>>, From |-> <<>>, To |-> <<>>, Path |-> <<>>, Format |-> "",
   Body |-> <<>>, ID |-> <<>>, Type |-> <<>>, Status |-> <<>>,
   Symbol |-> <<>>, PosAmbiguity |-> 0, MessageCapable |-> FALSE,
   ObjectName |-> <<>>, Alive |-> FALSE, ObjectFormat |-> "",
   RawTimestamp |-> <<>>, Timestamp |-> 0, GPSFixStatus |-> FALSE,
   MBits |-> <<>>, MType |-> "", Addressee |-> <<>>, BID |-> <<>>,
   AID |-> <<>>, Identifier |-> <<>>, SubPacket |-> <<>>,
   MessageText |-> <<>>, MsgNo |-> <<>>, AckMsgNo |-> <<>>,
   Response |-> <<>>, TPARM |-> <<>>, TUNIT |-> <<>>, TBITS |-> <<>>,
   Title |-> <<>>, Lat |-> 0, Lon |-> 0, Altitude |-> <<>>, Course |-> 0,
   Speed |-> <<>>, RadioRange |-> <<>>]

\* Lat and Lon are the position of an uncompressed or Mic-E report, as a
\* whole number of 1/6000 degree (a hundredth of a minute); the
\* floating-point position of the compressed decoder and the !DAO! offsets
\* are not part of this record.
\* Altitude, Course, Speed and RadioRange are what the compressed block
\* stores; the three powers are kept by their exponent: <<>> is the zero
\* value, <<e>> is 1.002^e * 0.3048 for Altitude, (1.08^e - 1) * 1.852 for
\* Speed and 2 * 1.08^e * 1.609344 for RadioRange.  What the comment
\* decoders and the Mic-E decoder store in these four fields is not part of
\* this record.
\* A decoder returns normally with the nil error, returns an error, or
\* panics; p is the record as the decoder left it.
Ok(p) == [st |-> "ok", err |-> NoErr, p |-> p]
Fail(p, e) == [st |-> "error", err |-> e, p |-> p]
Panic(e) == [st |-> "panic", err |-> e, p |-> ZeroParsed]

(***************************************************************************)
(* utils.SplitOnce and the callsign grammars                               *)
(***************************************************************************)
\* SplitOnce(s, sep) for a one-byte separator
SplitOnce(s, c) ==
  LET pos == Index(s, c)
  IN  IF pos < 0 THEN [ok |-> FALSE, head |-> <<>>, tail |-> <<>>]
      ELSE [ok |-> TRUE, head |-> Slice(s, 0, pos), tail |-> From(s, pos + 1)]

\* the regexp (?i)^[a-z0-9]{0,9}(-[a-z0-9]{1,8})?$ of parseHeader
FromCallRe(s) ==
  \E k \in 0..9 :
    /\ k <= Len(s)
    /\ All(SubSeq(s, 1, k), IsAlnum)
    /\ \/ k = Len(s)
       \/ /\ Len(s) - k - 1 \in 1..8
          /\ s[k + 1] = 45
          /\ All(SubSeq(s, k + 2, Len(s)), IsAlnum)

IsUpperOrDigit(c) == IsUpper(c) \/ IsDigit(c)

\* ValidateCallsign with a case-insensitive pattern
ValidateCallsignAnyCase(callsign) ==
  \E k \in 1..6 :
    /\ k <= Len(callsign)
    /\ All(SubSeq(callsign, 1, k), IsAlnum)
    /\ \/ k = Len(callsign)
       \/ /\ Len(callsign) - k - 1 \in 1..2
          /\ callsign[k + 1] = 45
          /\ All(SubSeq(callsign, k + 2, Len(callsign)), IsDigit)

\* ValidateCallsign: the regexp ^([A-Z0-9]{1,6})(-(\d{1,2}))?$
ValidateCallsign(callsign) ==
  \E k \in 1..6 :
    /\ k <= Len(callsign)
    /\ All(SubSeq(callsign, 1, k), IsUpperOrDigit)
    /\ \/ k = Len(callsign)
       \/ /\ Len(callsign) - k - 1 \in 1..2
          /\ callsign[k + 1] = 45
          /\ All(SubSeq(callsign, k + 2, Len(callsign)), IsDigit)

IsPathChar(c) == IsAlnum(c) \/ c = 45

\* the regexp (?i)^[A-Z0-9\-]{1,9}\*?$ of parseHeader
PathRe(pa) ==
  \E k \in 1..9 :
    /\ k <= Len(pa)
    /\ All(SubSeq(pa, 1, k), IsPathChar)
    /\ \/ k = Len(pa)
       \/ k + 1 = Len(pa) /\ pa[k + 1] = 42

(***************************************************************************)
(* parseHeader                                                             *)
(***************************************************************************)
\* RemoveSpacePaths without the copy paths[i] = pa
RECURSIVE RemoveSpacePathsNoCopy(_, _, _)
RemoveSpacePathsNoCopy(paths, k, i) ==
  IF k > Len(paths) THEN SubSeq(paths, 1, i)
  ELSE IF TrimSpace(paths[k]) # <<>>
       THEN RemoveSpacePathsNoCopy(paths, k + 1, i + 1)
       ELSE RemoveSpacePathsNoCopy(paths, k + 1, i)

\* the "Remove space path" loop: element k is read, i elements are kept
RECURSIVE RemoveSpacePaths(_, _, _)
RemoveSpacePaths(paths, k, i) ==
  IF k > Len(paths) THEN SubSeq(paths, 1, i)
  ELSE IF TrimSpace(paths[k]) # <<>>
       THEN RemoveSpacePaths([paths EXCEPT ![i + 1] = paths[k]], k + 1, i + 1)
       ELSE RemoveSpacePaths(paths, k + 1, i)

\* the sender test of parseHeader
FromCallValid(fromCall) ==
  /\ 1 <= Len(fromCall) /\ Len(fromCall) <= 9
  /\ FromCallRe(fromCall)

\* the destination test of parseHeader
ToCallValid(toCall) == ValidateCallsign(toCall)

parseHeader(p, head) ==
  LET sp == SplitOnce(head, 62)
      fromCall == sp.head
      paths0 == Split(sp.tail, 44)
      toCall == paths0[1]
      paths == RemoveSpacePaths(Tail(paths0), 1, 0)
  IN  IF ~sp.ok THEN Fail(p, "invalid packet header")
      ELSE IF ~FromCallValid(fromCall) THEN Fail(p, "fromCallsign is invalid")
      ELSE IF Len(paths0) < 1 THEN Fail(p, "no toCallsign in header")
      ELSE IF Len(toCall) = 0 THEN Fail(p, "no toCallsign in header")
      ELSE IF ~ToCallValid(toCall)
           THEN Fail(p, "invalid toCallsign in header")
      ELSE IF \E i \in 1..Len(paths) : ~PathRe(paths[i])
           THEN Fail(p, "invalid callsign in path")
      ELSE Ok([p EXCEPT !.From = fromCall, !.To = toCall, !.Path = paths])

(***************************************************************************)
(* parseInvalid, parseUserDefined, parseStatus                             *)
(***************************************************************************)
parseInvalid(p, body) == Ok([p EXCEPT !.Format = "invalid", !.Body = body])

\* []rune(body)[0] and []rune(body)[1] are read without a length test
parseUserDefined(p, body) ==
  IF Len(body) < 2 THEN Panic("index out of range")
  ELSE Ok([p EXCEPT !.Format = "user-defined", !.ID = <<body[1]>>,
                    !.Type = <<body[2]>>, !.Body = From(body, 2)])

parseStatus(p, body) ==
  Ok([p EXCEPT !.Format = "status", !.Status = Trim(body, {32})])

(***************************************************************************)
(* parseTimeStamp and parseTimeString                                      *)
(***************************************************************************)
\* the decimal number written by a string of digits
RECURSIVE Atoi(_)
Atoi(s) ==
  IF s = <<>> THEN 0 ELSE 10 * Atoi(SubSeq(s, 1, Len(s) - 1)) + (s[Len(s)] - 48)

IsLeap(y) == (y % 4 = 0 /\ y % 100 # 0) \/ y % 400 = 0

DaysIn(y, m) ==
  IF m = 2 THEN (IF IsLeap(y) THEN 29 ELSE 28)
  ELSE IF m \in {4, 6, 9, 11} THEN 30 ELSE 31

\* days from 1970-01-01 to y-m-d (proleptic Gregorian calendar)
DaysFromCivil(y, m, d) ==
  LET yy == IF m <= 2 THEN y - 1 ELSE y
      era == yy \div 400
      yoe == yy - era * 400
      mp == IF m > 2 THEN m - 3 ELSE m + 9
      doy == (153 * mp + 2) \div 5 + d - 1
      doe == yoe * 365 + yoe \div 4 - yoe \div 100 + doy
  IN  era * 146097 + doe - 719468

\* parseTimeString with the minute field left out of the epoch second
parseTimeStringHourOnly(y, mo, d, h, mi, sec) ==
  IF /\ mo \in 1..12 /\ d >= 1 /\ d <= DaysIn(y, mo)
     /\ h <= 23 /\ mi <= 59 /\ sec <= 59
  THEN [val |-> DaysFromCivil(y, mo, d) * 86400 + h * 3600 + sec,
        err |-> NoErr]
  ELSE [val |-> 0, err |-> "parsing time: out of range"]

\* parseTimeString(timeStr, "20060102150405") on the fields of timeStr:
\* time.Parse rejects a field out of range, Unix() gives the epoch second
parseTimeString(y, mo, d, h, mi, sec) ==
  IF /\ mo \in 1..12 /\ d >= 1 /\ d <= DaysIn(y, mo)
     /\ h <= 23 /\ mi <= 59 /\ sec <= 59
  THEN [val |-> DaysFromCivil(y, mo, d) * 86400 + h * 3600 + mi * 60 + sec,
        err |-> NoErr]
  ELSE [val |-> 0, err |-> "parsing time: out of range"]

\* the regexp ^((\d{6})(.))$ on the first 7 bytes of the body
TimeStampRe(s) == Len(s) = 7 /\ All(SubSeq(s, 1, 6), IsDigit) /\ s[7] # 10

\* the switch on the format byte with every other byte read as z
TimeStampValueAnyForm(ts, form, utc) ==
  LET a == Atoi(SubSeq(ts, 1, 2))
      b == Atoi(SubSeq(ts, 3, 4))
      c == Atoi(SubSeq(ts, 5, 6))
      r == IF form = 104
           THEN parseTimeString(utc.year, utc.month, utc.day, a, b, c)
           ELSE parseTimeString(utc.year, utc.month, a, b, c, 0)
  IN  IF r.err # NoErr THEN 0 ELSE r.val

\* the value computed by the switch on the format byte; utc is what
\* time.Now().UTC() returns: [year, month, day]
TimeStampValue(ts, form, utc) ==
  LET a == Atoi(SubSeq(ts, 1, 2))
      b == Atoi(SubSeq(ts, 3, 4))
      c == Atoi(SubSeq(ts, 5, 6))
      r == IF form = 104
           THEN parseTimeString(utc.year, utc.month, utc.day, a, b, c)
           ELSE IF form \in {122, 47}
           THEN parseTimeString(utc.year, utc.month, a, b, c, 0)
           ELSE [val |-> 0, err |-> NoErr]
  IN  IF r.err # NoErr THEN 0 ELSE r.val

\* parseTimeStamp(packetType, body) (string, error)
parseTimeStamp(p, packetType, body, utc) ==
  IF Len(body) < 7
  THEN [st |-> "error", err |-> "invalid timestamp format", p |-> p,
        body |-> body]
  ELSE IF ~TimeStampRe(Slice(body, 0, 7))
  THEN [st |-> "ok", err |-> NoErr, p |-> p, body |-> body]
  ELSE LET rawts == Slice(body, 0, 7)
           ts == Slice(body, 0, 6)
           form == body[7]
           skip == packetType = <<62>> /\ form # 122
       IN  [st |-> "ok", err |-> NoErr,
            p |-> [p EXCEPT !.RawTimestamp = rawts,
                            !.Timestamp = IF skip THEN 0
                                          ELSE TimeStampValue(ts, form, utc)],
            body |-> IF skip THEN body ELSE From(body, 7)]

(***************************************************************************)
(* parseNormal and parseCompressed                                         *)
(***************************************************************************)
IsDigitOrBlank(c) == IsDigit(c) \/ c = 32
IsDigitOrSpace(c) == IsDigit(c) \/ IsSpace(c)
IsSymbolTable(c) == c = 47 \/ c = 92 \/ IsDigit(c) \/ IsUpper(c)
IsGraphic(c) == c >= 33 /\ c <= 126
NotNewline(c) == c # 10

\* the regexp ^[0-9\s]{4}\.[0-9\s]{2}[NS].[0-9\s]{5}\.[0-9\s]{2}[EW] of
\* parsePosition
CoarseNormalRe(body) ==
  /\ Len(body) >= 18
  /\ All(SubSeq(body, 1, 4), IsDigitOrSpace)
  /\ body[5] = 46
  /\ All(SubSeq(body, 6, 7), IsDigitOrSpace)
  /\ body[8] \in {78, 83}
  /\ body[9] # 10
  /\ All(SubSeq(body, 10, 14), IsDigitOrSpace)
  /\ body[15] = 46
  /\ All(SubSeq(body, 16, 17), IsDigitOrSpace)
  /\ body[18] \in {69, 87}

\* the pattern of parseNormal: ^(\d{2})([0-9 ]{2}\.[0-9 ]{2})([NnSs])
\* ([\/\\0-9A-Z])(\d{3})([0-9 ]{2}\.[0-9 ]{2})([EeWw])([\x21-\x7e])(.*)$
NormalRe(body) ==
  /\ Len(body) >= 19
  /\ All(SubSeq(body, 1, 2), IsDigit)
  /\ All(SubSeq(body, 3, 4), IsDigitOrBlank)
  /\ body[5] = 46
  /\ All(SubSeq(body, 6, 7), IsDigitOrBlank)
  /\ body[8] \in {78, 110, 83, 115}
  /\ IsSymbolTable(body[9])
  /\ All(SubSeq(body, 10, 12), IsDigit)
  /\ All(SubSeq(body, 13, 14), IsDigitOrBlank)
  /\ body[15] = 46
  /\ All(SubSeq(body, 16, 17), IsDigitOrBlank)
  /\ body[18] \in {69, 101, 87, 119}
  /\ IsGraphic(body[19])
  /\ All(SubSeq(body, 20, Len(body)), NotNewline)

\* strings.Replace(s, old, new, 1) for one-byte old and new
ReplaceFirst(s, old, new) ==
  LET pos == Index(s, old)
  IN  IF pos < 0 THEN s ELSE [s EXCEPT ![pos + 1] = new]

\* whether strconv.ParseFloat accepts a string of digits, dots and blanks
ParseFloatOk(s) ==
  /\ \A i \in 1..Len(s) : IsDigit(s[i]) \/ s[i] = 46
  /\ Count(s, 46) <= 1
  /\ \E i \in 1..Len(s) : IsDigit(s[i])

\* the minutes text with every blank replaced by 5
MinutesTextEveryBlank(min, posAmbiguity) ==
  IF posAmbiguity >= 4 THEN <<51, 48>>
  ELSE [i \in 1..Len(min) |-> IF min[i] = 32 THEN 53 ELSE min[i]]

\* the minutes text handed to strconv.ParseFloat
MinutesText(min, posAmbiguity) ==
  IF posAmbiguity >= 4 THEN <<51, 48>>
  ELSE TrimSpace(ReplaceFirst(min, 32, 53))

\* strconv.ParseFloat of a minutes text that ParseFloatOk accepts, in
\* hundredths of a minute
Minutes100(t) ==
  LET pos == Index(t, 46)
      whole == IF pos < 0 THEN t ELSE Slice(t, 0, pos)
      frac == IF pos < 0 THEN <<>> ELSE From(t, pos + 1)
  IN  Atoi(whole) * 100
      + (IF Len(frac) = 0 THEN 0
         ELSE IF Len(frac) = 1 THEN 10 * Atoi(frac)
         ELSE Atoi(SubSeq(frac, 1, 2)))

\* float64(deg) + min/60.0, negated for the directions S, s, W and w
Degrees6000(deg, min100, dir) ==
  IF dir \in {83, 115, 87, 119} THEN 0 - (deg * 6000 + min100)
  ELSE deg * 6000 + min100

\* AmbiguityMismatch with the count of the longitude taken on the latitude
AmbiguityMismatchSameField(latMin, lonMin) ==
  Count(latMin, 32) # Count(latMin, 32)

\* posAmbiguity != strings.Count(lonMin, " ")
AmbiguityMismatch(latMin, lonMin) == Count(latMin, 32) # Count(lonMin, 32)

\* parseNormal(body) (string, error)
parseNormal(p, body) ==
  IF ~NormalRe(body)
  THEN [st |-> "ok", err |-> NoErr, p |-> p, body |-> body]
  ELSE LET p1 == [p EXCEPT !.Format = "uncompressed"]
           latDeg == Atoi(SubSeq(body, 1, 2))
           latMin == SubSeq(body, 3, 7)
           symbolTable == body[9]
           lonDeg == Atoi(SubSeq(body, 10, 12))
           lonMin == SubSeq(body, 13, 17)
           symbol == body[19]
           posAmbiguity == Count(latMin, 32)
           p2 == [p1 EXCEPT !.PosAmbiguity = posAmbiguity]
           E(pp, e) == [st |-> "error", err |-> e, p |-> pp, body |-> body]
       IN  IF AmbiguityMismatch(latMin, lonMin)
           THEN E(p1, "latitude and longitude ambiguity mismatch")
           ELSE IF latDeg > 89 \/ latDeg < 0
           THEN E(p2, "latitude is out of range (0-90 degrees)")
           ELSE IF lonDeg > 179 \/ lonDeg < 0
           THEN E(p2, "longitude is out of range (0-180 degrees)")
           ELSE IF ~ParseFloatOk(MinutesText(latMin, posAmbiguity))
           THEN E(p2, "invalid latitude minutes")
           ELSE IF ~ParseFloatOk(MinutesText(lonMin, posAmbiguity))
           THEN E(p2, "invalid longitude minutes")
           ELSE [st |-> "ok", err |-> NoErr,
                 p |-> [p2 EXCEPT
                          !.Symbol = <<symbol, symbolTable>>,
                          !.Lon = Degrees6000(
                                    lonDeg,
                                    Minutes100(MinutesText(lonMin,
                                                           posAmbiguity)),
                                    body[18]),
                          !.Lat = Degrees6000(
                                    latDeg,
                                    Minutes100(MinutesText(latMin,
                                                           posAmbiguity)),
                                    body[8])],
                 body |-> From(body, 19)]

\* ctype&0x20 == 0x20 on the int ctype, which is at least -33 (in two-s
\* complement the low six bits of a negative x are those of x + 64)
Bit20(ctype) == ((ctype + 64) % 64) >= 32

\* ctype&0x18 == 0x10 on the int ctype, which is at least -33
AltitudeType(ctype) == (((ctype + 64) % 64) \div 8) % 4 = 2

\* the branches on c1, s1 and ctype with the altitude test made first
CompressedExtraAltitudeFirst(p, c1, s1, ctype) ==
  IF AltitudeType(ctype) THEN [p EXCEPT !.Altitude = <<c1 * 91 + s1>>]
  ELSE IF c1 = -1 \/ s1 = -1 THEN p
  ELSE IF c1 >= 0 /\ c1 <= 89
  THEN [p EXCEPT !.Course = IF c1 # 0 THEN c1 * 4 ELSE 360, !.Speed = <<s1>>]
  ELSE IF c1 = 90 THEN [p EXCEPT !.RadioRange = <<s1>>]
  ELSE p

\* the branches on c1, s1 and ctype that store altitude, course and speed,
\* or radio range
CompressedExtra(p, c1, s1, ctype) ==
  IF c1 = -1 \/ s1 = -1 THEN p
  ELSE IF AltitudeType(ctype) THEN [p EXCEPT !.Altitude = <<c1 * 91 + s1>>]
  ELSE IF c1 >= 0 /\ c1 <= 89
  THEN [p EXCEPT !.Course = IF c1 # 0 THEN c1 * 4 ELSE 360, !.Speed = <<s1>>]
  ELSE IF c1 = 90 THEN [p EXCEPT !.RadioRange = <<s1>>]
  ELSE p

\* parseCompressed(body) (string, error)
parseCompressed(p, body) ==
  IF Len(body) < 13
  THEN [st |-> "error", err |-> "invalid compressed format", p |-> p,
        body |-> body]
  ELSE LET p1 == [p EXCEPT !.Format = "compressed"]
           compressed == Slice(body, 0, 13)
           rest == From(body, 13)
           symbolTable == compressed[1]
           symbol == compressed[10]
           base91Lat == ToDecimal(Slice(compressed, 1, 5))
           base91Lon == ToDecimal(Slice(compressed, 5, 9))
           c1 == compressed[11] - 33
           ctype == compressed[13] - 33
       IN  IF base91Lat.err # NoErr
           THEN [st |-> "error", err |-> base91Lat.err, p |-> p1,
                 body |-> rest]
           ELSE IF base91Lon.err # NoErr
           THEN [st |-> "error", err |-> base91Lon.err, p |-> p1,
                 body |-> rest]
           ELSE [st |-> "ok", err |-> NoErr,
                 p |-> CompressedExtra(
                         [p1 EXCEPT !.Symbol = <<symbol, symbolTable>>,
                                    !.GPSFixStatus =
                                      (c1 = -1 /\ Bit20(ctype))],
                         c1, compressed[12] - 33, ctype),
                 body |-> rest]

(***************************************************************************)
(* parseDataExtensions and parseWeatherData                                *)
(***************************************************************************)
IsDigitBlankDot(c) == IsDigit(c) \/ c = 32 \/ c = 46

\* ^([0-9 \.]{3})/([0-9 \.]{3}) at offset off of body
CourseSpeedRe(body, off) ==
  /\ Len(body) >= off + 7
  /\ All(SubSeq(body, off + 1, off + 3), IsDigitBlankDot)
  /\ body[off + 4] = 47
  /\ All(SubSeq(body, off + 5, off + 7), IsDigitBlankDot)

\* ^(PHG(\d[\x30-\x7e]\d\d)([0-9A-Z]\/)?): the length of the match, 0 if none
PHGLen(body) ==
  IF /\ Len(body) >= 7
     /\ SubSeq(body, 1, 3) = <<80, 72, 71>>
     /\ IsDigit(body[4])
     /\ body[5] >= 48 /\ body[5] <= 126
     /\ IsDigit(body[6]) /\ IsDigit(body[7])
  THEN IF Len(body) >= 9 /\ IsUpperOrDigit(body[8]) /\ body[9] = 47
       THEN 9 ELSE 7
  ELSE 0

\* ^RNG(\d{4})
RangeRe(body) ==
  /\ Len(body) >= 7
  /\ SubSeq(body, 1, 3) = <<82, 78, 71>>
  /\ All(SubSeq(body, 4, 7), IsDigit)

\* parseDataExtensions(body): the body it returns (the course, speed, DF,
\* PHG and range fields it fills are outside this model)
parseDataExtensions(body) ==
  IF CourseSpeedRe(body, 0)
  THEN IF Len(body) >= 8 /\ body[8] = 47 /\ CourseSpeedRe(body, 8)
       THEN From(body, 15) ELSE From(body, 7)
  ELSE IF PHGLen(body) > 0 THEN From(body, PHGLen(body))
  ELSE IF RangeRe(body) THEN From(body, 7)
  ELSE body

\* ^([0-9]{3})/([0-9]{3}) replaced by c${1}s${2}
NormalizeWind(body) ==
  IF /\ Len(body) >= 7
     /\ All(SubSeq(body, 1, 3), IsDigit)
     /\ body[4] = 47
     /\ All(SubSeq(body, 5, 7), IsDigit)
  THEN <<99>> \o SubSeq(body, 1, 3) \o <<115>> \o SubSeq(body, 5, 7)
         \o From(body, 7)
  ELSE body

\* the key letters cSgtrpPlLs# of the weather tokens
WxKeys == {99, 83, 103, 116, 114, 112, 80, 108, 76, 115, 35}

IsWxValue(c) == IsDigit(c) \/ c \in {45, 46, 32}

\* one alternative of ([cSgtrpPlLs#][0-9\-. ]{3}|h[0-9. ]{2}|b[0-9. ]{5})
\* at offset off: the length of the token, 0 if none
WxFieldLen(body, off) ==
  IF off >= Len(body) THEN 0
  ELSE IF /\ body[off + 1] \in WxKeys
          /\ Len(body) >= off + 4
          /\ All(SubSeq(body, off + 2, off + 4), IsWxValue)
  THEN 4
  ELSE IF /\ body[off + 1] = 104
          /\ Len(body) >= off + 3
          /\ All(SubSeq(body, off + 2, off + 3), IsDigitBlankDot)
  THEN 3
  ELSE IF /\ body[off + 1] = 98
          /\ Len(body) >= off + 6
          /\ All(SubSeq(body, off + 2, off + 6), IsDigitBlankDot)
  THEN 6
  ELSE 0

\* the length of the match of ^(...)+ : tokens are taken while one fits
RECURSIVE WxDataLen(_, _)
WxDataLen(body, off) ==
  IF WxFieldLen(body, off) = 0 THEN off
  ELSE WxDataLen(body, off + WxFieldLen(body, off))

\* one alternative of ([cSgtrpPlLs#]\d{3}|t-\d{2}|h\d{2}|b\d{5}|s\.\d{2}|
\* s\d\.\d) at offset off of data: the length of the match, 0 if none
WxTokenLen(data, off) ==
  LET has(n) == Len(data) >= off + n
      d(k) == IsDigit(data[off + k])
  IN  IF ~has(1) THEN 0
      ELSE IF data[off + 1] \in WxKeys /\ has(4) /\ d(2) /\ d(3) /\ d(4)
      THEN 4
      ELSE IF data[off + 1] = 116 /\ has(4) /\ data[off + 2] = 45
              /\ d(3) /\ d(4)
      THEN 4
      ELSE IF data[off + 1] = 104 /\ has(3) /\ d(2) /\ d(3) THEN 3
      ELSE IF data[off + 1] = 98 /\ has(6) /\ d(2) /\ d(3) /\ d(4) /\ d(5)
              /\ d(6)
      THEN 6
      ELSE IF data[off + 1] = 115 /\ has(4) /\ data[off + 2] = 46
              /\ d(3) /\ d(4)
      THEN 4
      ELSE IF data[off + 1] = 115 /\ has(4) /\ d(2) /\ data[off + 3] = 46
              /\ d(4)
      THEN 4
      ELSE 0

\* FindAllString: the matches, leftmost first and not overlapping
RECURSIVE WxTokens(_, _)
WxTokens(data, off) ==
  IF off >= Len(data) THEN <<>>
  ELSE IF WxTokenLen(data, off) = 0 THEN WxTokens(data, off + 1)
  ELSE <<SubSeq(data, off + 1, off + WxTokenLen(data, off))>>
         \o WxTokens(data, off + WxTokenLen(data, off))

\* the map keyMap: key character -> field name
keyMap ==
  103 :> "windGust" @@ 99 :> "windDirection" @@ 116 :> "temperature" @@
  83 :> "windSpeed" @@ 114 :> "rain1h" @@ 112 :> "rain24h" @@
  80 :> "rainSinceMidnight" @@ 104 :> "humidity" @@ 98 :> "pressure" @@
  108 :> "luminosity" @@ 76 :> "luminosity" @@ 115 :> "snow" @@
  35 :> "rainRaw"

\* the body after the two replacements at the head of parseWeatherData
WxNormalized(body) == ReplaceFirst(NormalizeWind(body), 115, 83)

\* the field names of the stores p.Weather[keyName] = ... that the loop
\* over the tokens of body makes, in order
WxStoreKeys(body) ==
  LET tokens == WxTokens(SubSeq(body, 1, WxDataLen(body, 0)), 0)
  IN  [i \in DOMAIN tokens |-> keyMap[tokens[i][1]]]

\* parseWeatherData(body): every token found is stored with
\* p.Weather[keyName] = ..., and no code of Parse allocates the map
\* p.Weather of &Parsed{}: the first store panics
parseWeatherData(p, body) ==
  LET b1 == WxNormalized(body)
      n == WxDataLen(b1, 0)
  IN  IF n > 0 /\ WxStoreKeys(b1) # <<>>
      THEN [st |-> "panic", err |-> "assignment to entry in nil map",
            p |-> ZeroParsed, body |-> <<>>]
      ELSE [st |-> "ok", err |-> NoErr, p |-> p, body |-> From(b1, n)]

(***************************************************************************)
(* parsePosition                                                           *)
(***************************************************************************)
\* strings.Contains(chars, s) for a one-byte string s
ContainsChar(chars, s) == Len(s) = 1 /\ s[1] \in chars

\* the regexp ^([ -~]{9})(\*|_) of the object report
IsPrintable(c) == c >= 32 /\ c <= 126
ObjectRe(body) ==
  /\ Len(body) >= 10
  /\ All(SubSeq(body, 1, 9), IsPrintable)
  /\ body[10] \in {42, 95}

\* the "Check format" step: the packet type and the body that is decoded
PositionStart(packetType, body) ==
  IF ~ContainsChar({33, 61, 47, 64, 59}, packetType)
  THEN [packetType |-> <<33>>, body |-> SplitOnce(body, 33).tail]
  ELSE [packetType |-> packetType, body |-> body]

\* ObjectFormat with the two assignments in the other order
ObjectFormatSwapped(p, packetType) ==
  IF packetType = <<59>>
  THEN Ok([p EXCEPT !.ObjectFormat = "object", !.Format = "object"])
  ELSE Ok(p)

\* the end of parsePosition: object format
ObjectFormat(p, packetType) ==
  IF packetType = <<59>>
  THEN Ok([p EXCEPT !.ObjectFormat = p.Format, !.Format = "object"])
  ELSE Ok(p)

\* the weather branch of parsePosition: w is what parseWeatherData returned
PositionWeather(w, packetType) ==
  IF w.st # "ok" THEN [st |-> w.st, err |-> w.err, p |-> w.p]
  ELSE ObjectFormat(w.p, packetType)

\* parsePosition after the coordinates: c is what parseNormal or
\* parseCompressed returned; p.Symbol[0] is read on a slice that is empty
\* when parseNormal returned without a match
PositionComment(c, packetType) ==
  IF c.st # "ok" THEN [st |-> c.st, err |-> c.err, p |-> c.p]
  ELSE IF c.p.Symbol = <<>> THEN Panic("index out of range")
  ELSE IF c.p.Symbol[1] = 95
  THEN PositionWeather(parseWeatherData(c.p, parseDataExtensions(c.body)),
                       packetType)
  ELSE ObjectFormat(c.p, packetType)

\* the rest of parsePosition after the timestamp: coordinates, weather or
\* comment, object format
PositionBody(p, packetType, body) ==
  PositionComment(IF CoarseNormalRe(body) THEN parseNormal(p, body)
                  ELSE parseCompressed(p, body),
                  packetType)

\* parsePosition after the timestamp step: t is what parseTimeStamp returned
PositionTimed(t, packetType) ==
  IF t.st # "ok" THEN Fail(t.p, t.err)
  ELSE IF Len(t.body) = 0 /\ t.p.Timestamp # 0
  THEN Fail(t.p, "invalid timestamp format")
  ELSE PositionBody(t.p, packetType, t.body)

\* the "Parse timestamp" step, taken for the packet types / @ ;
PositionStamp(p, packetType, body, utc) ==
  IF ContainsChar({47, 64, 59}, packetType)
  THEN parseTimeStamp(p, packetType, body, utc)
  ELSE [st |-> "ok", err |-> NoErr, p |-> p, body |-> body]

\* parsePosition after the "Check format" step
PositionHead(p, packetType, body, utc) ==
  IF packetType = <<59>>
  THEN IF ~ObjectRe(body) THEN Fail(p, "invalid format")
       ELSE PositionTimed(
              PositionStamp([p EXCEPT !.ObjectName = SubSeq(body, 1, 9),
                                      !.Alive = (body[10] = 42)],
                            packetType, From(body, 10), utc),
              packetType)
  ELSE PositionTimed(
         PositionStamp([p EXCEPT !.MessageCapable =
                                   ContainsChar({64, 61}, packetType)],
                       packetType, body, utc),
         packetType)

\* the result of parsePosition with the body it started at
PositionResult(r, start) ==
  [st |-> r.st, err |-> r.err, p |-> r.p, start |-> start]

\* parsePosition on what the "Check format" step s0 left
PositionFrom(p, s0, utc) ==
  PositionResult(PositionHead(p, s0.packetType, s0.body, utc), s0.body)

\* parsePosition(packetType, body) error; start is the body as it is after
\* the "Check format" step
parsePosition(p, packetType0, body0, utc) ==
  PositionFrom(p, PositionStart(packetType0, body0), utc)

(***************************************************************************)
(* parseMicE                                                               *)
(***************************************************************************)
MtypeTableStd ==
  Str(<<"1", "1", "1">>) :> "M0: Off Duty" @@
  Str(<<"1", "1", "0">>) :> "M1: En Route" @@
  Str(<<"1", "0", "1">>) :> "M2: In Service" @@
  Str(<<"1", "0", "0">>) :> "M3: Returning" @@
  Str(<<"0", "1", "1">>) :> "M4: Committed" @@
  Str(<<"0", "1", "0">>) :> "M5: Special" @@
  Str(<<"0", "0", "1">>) :> "M6: Priority" @@
  Str(<<"0", "0", "0">>) :> "Emergency"

MtypeTableCustom ==
  Str(<<"1", "1", "1">>) :> "C0: Custom-0" @@
  Str(<<"1", "1", "0">>) :> "C1: Custom-1" @@
  Str(<<"1", "0", "1">>) :> "C2: Custom-2" @@
  Str(<<"1", "0", "0">>) :> "C3: Custom-3" @@
  Str(<<"0", "1", "1">>) :> "C4: Custom-4" @@
  Str(<<"0", "1", "0">>) :> "C5: Custom-5" @@
  Str(<<"0", "0", "1">>) :> "C6: Custom-6" @@
  Str(<<"0", "0", "0">>) :> "Emergency"

\* table[key] of a Go map: the zero value for a missing key
MapGet(table, k) == IF k \in DOMAIN table THEN table[k] ELSE ""

\* the regexp ^[0-9A-Z]{3}[0-9L-Z]{3}$
MicEDstRe(dstCall) ==
  /\ Len(dstCall) = 6
  /\ All(SubSeq(dstCall, 1, 3), IsUpperOrDigit)
  /\ \A i \in 4..6 : IsDigit(dstCall[i]) \/ (dstCall[i] >= 76 /\ dstCall[i] <= 90)

\* the regexp ^[&-\x7f][&-a][\x1c-\x7f]{2}[\x1c-\x7d][\x1c-\x7f][\x21-\x7e]
\* [/\\0-9A-Z]
MicEBodyRe(body) ==
  /\ Len(body) >= 8
  /\ body[1] >= 38 /\ body[1] <= 127
  /\ body[2] >= 38 /\ body[2] <= 97
  /\ body[3] >= 28 /\ body[3] <= 127
  /\ body[4] >= 28 /\ body[4] <= 127
  /\ body[5] >= 28 /\ body[5] <= 125
  /\ body[6] >= 28 /\ body[6] <= 127
  /\ body[7] >= 33 /\ body[7] <= 126
  /\ IsSymbolTable(body[8])

\* one character of the destination, translated to a latitude digit
MicELatChar(c) ==
  IF c \in {75, 76, 90} THEN 32
  ELSE IF c > 76 THEN c - 32
  ELSE IF c > 57 THEN c - 17
  ELSE c

\* the regexp ^\d+( *)$ : the number of blanks matched, -1 without a match
MicEAmbiguity(t) ==
  LET digits == {i \in 1..Len(t) : IsDigit(t[i])}
      n == Cardinality({i \in 1..Len(t) : t[i] = 32})
  IN  IF /\ Len(t) >= 1 /\ IsDigit(t[1])
         /\ \A i \in 1..Len(t) : IsDigit(t[i]) \/ t[i] = 32
         /\ \A i \in 1..Len(t), j \in 1..Len(t) :
              (t[i] = 32 /\ IsDigit(t[j])) => j < i
      THEN n ELSE -1

\* the three ReplaceAllString passes on one character of dstCall[0:3]
MicEBit(c) ==
  LET a == IF IsDigit(c) \/ c = 76 THEN 48 ELSE c
      b == IF a >= 80 /\ a <= 90 THEN 49 ELSE a
  IN  IF b >= 65 /\ b <= 75 THEN 50 ELSE b

\* the message type looked up without replacing 2 by 1 in the key
MicETypeNoFold(mBits) ==
  IF \E i \in 1..Len(mBits) : mBits[i] = 50
  THEN MapGet(MtypeTableCustom, mBits)
  ELSE MapGet(MtypeTableStd, mBits)

\* "Resolve message type"
MicEType(mBits) ==
  IF \E i \in 1..Len(mBits) : mBits[i] = 50
  THEN MapGet(MtypeTableCustom,
              [i \in 1..Len(mBits) |-> IF mBits[i] = 50 THEN 49 ELSE mBits[i]])
  ELSE MapGet(MtypeTableStd, mBits)

\* the latitude in 1/6000 degree: the digits of tempDstCall with the centre
\* of the ambiguity box written in, blanks read as 0, degrees 0 when
\* strconv.Atoi fails on a blank, negated when dstCall[3] <= 0x4c
MicELat(dstCall, tempDstCall, posAmbiguity) ==
  LET t == IF posAmbiguity >= 4 THEN [tempDstCall EXCEPT ![3] = 51]
           ELSE IF posAmbiguity > 0
           THEN [tempDstCall EXCEPT ![7 - posAmbiguity] = 53]
           ELSE tempDstCall
      digit(k) == IF t[k] = 32 THEN 0 ELSE t[k] - 48
      latDegrees == IF IsDigit(t[1]) /\ IsDigit(t[2])
                    THEN 10 * digit(1) + digit(2) ELSE 0
      latitude == latDegrees * 6000 + 1000 * digit(3) + 100 * digit(4)
                  + 10 * digit(5) + digit(6)
  IN  IF dstCall[4] <= 76 THEN 0 - latitude ELSE latitude

\* strconv.ParseFloat(string([]rune(body)[i]), 64) with its error dropped:
\* the text is the one character, so the value is the digit it writes, and
\* 0 with a syntax error for every other character
ParseFloatRune(c) == IF IsDigit(c) THEN c - 48 ELSE 0

\* "Parse longitude": the degrees, offset and folded
MicELonDegrees(dstCall, body) ==
  LET lonF64 == ParseFloatRune(body[1])
      l0 == lonF64 - 28
      l1 == IF dstCall[5] >= 80 THEN l0 + 100 ELSE l0
  IN  IF l1 >= 180 /\ l1 <= 189 THEN l1 - 80
      ELSE IF l1 >= 190 /\ l1 <= 199 THEN l1 - 190
      ELSE l1

\* "Long minutes" in hundredths of a minute, moved to the centre of the
\* ambiguity box; math.Floor rounds down, as \div does
MicELonMinutes(body, posAmbiguity) ==
  LET m0 == ParseFloatRune(body[2]) - 28
      m1 == IF m0 >= 60 THEN m0 - 60 ELSE m0
      lngMinutes == m1 * 100 + ParseFloatRune(body[3]) - 28
  IN  IF posAmbiguity = 4 THEN 3000
      ELSE IF posAmbiguity = 3 THEN (lngMinutes \div 1000) * 1000 + 500
      ELSE IF posAmbiguity = 2 THEN (lngMinutes \div 100) * 100 + 50
      ELSE IF posAmbiguity = 1 THEN (lngMinutes \div 10) * 10 + 5
      ELSE lngMinutes

\* the longitude in 1/6000 degree, negated when dstCall[5] >= 0x50
MicELon(dstCall, body, posAmbiguity) ==
  LET longitude == MicELonDegrees(dstCall, body) * 6000
                   + MicELonMinutes(body, posAmbiguity)
  IN  IF dstCall[6] >= 80 THEN 0 - longitude ELSE longitude

\* parseMicE(dstCall, body) (string, error); the speed, course, telemetry,
\* altitude and comment it computes are outside this model, and none of
\* these steps can fail
parseMicE(p, dstCall0, body) ==
  LET p1 == [p EXCEPT !.Format = "mic-e"]
      dstCall == Split(dstCall0, 45)[1]
      tempDstCall == [i \in 1..Len(dstCall) |-> MicELatChar(dstCall[i])]
      posAmbiguity == MicEAmbiguity(tempDstCall)
      mBits == [i \in 1..3 |-> MicEBit(dstCall[i])]
      p2 == [p1 EXCEPT !.Symbol = <<body[7], body[8]>>]
      p3 == [p2 EXCEPT !.PosAmbiguity = posAmbiguity, !.MBits = mBits,
                       !.MType = MicEType(mBits),
                       !.Lat = MicELat(dstCall, tempDstCall, posAmbiguity)]
  IN  IF Len(dstCall) # 6 THEN Fail(p1, "dstCall has to be 6 characters")
      ELSE IF Len(body) < 8 THEN Fail(p1, "packet data field is too short")
      ELSE IF ~MicEDstRe(dstCall) THEN Fail(p1, "invalid dstCall")
      ELSE IF ~MicEBodyRe(body) THEN Fail(p1, "invalid data format")
      ELSE IF posAmbiguity < 0 THEN Fail(p2, "invalid latitude ambiguity")
      ELSE IF posAmbiguity > 4
      THEN Fail(p3, "Unsupported position ambiguity: 5")
      ELSE Ok([p3 EXCEPT !.Lon = MicELon(dstCall, body, posAmbiguity)])

(***************************************************************************)
(* parseMessage                                                            *)
(***************************************************************************)
IsIdentChar(c) == IsAlnum(c) \/ c \in {95, 32, 45}

\* (?i)^BLN([0-9])([a-z0-9_ \-]{5}):(.{0,67})
BulletinRe(body) ==
  /\ Len(body) >= 10
  /\ body[1] \in {66, 98} /\ body[2] \in {76, 108} /\ body[3] \in {78, 110}
  /\ IsDigit(body[4])
  /\ All(SubSeq(body, 5, 9), IsIdentChar)
  /\ body[10] = 58

\* ^BLN([A-Z])([a-zA-Z0-9_ \-]{5}):(.{0,67})
AnnouncementRe(body) ==
  /\ Len(body) >= 10
  /\ SubSeq(body, 1, 3) = <<66, 76, 78>>
  /\ IsUpper(body[4])
  /\ All(SubSeq(body, 5, 9), IsIdentChar)
  /\ body[10] = 58

\* ^([a-zA-Z0-9_ \-]{9}):(.*)$
AddresseeRe(body) ==
  /\ Len(body) >= 10
  /\ All(SubSeq(body, 1, 9), IsIdentChar)
  /\ body[10] = 58
  /\ All(SubSeq(body, 11, Len(body)), NotNewline)

\* the text a capture (.{0,n}) takes at the start of s
DotPrefix(s, n) ==
  LET pos == Index(s, 10)
      end == IF pos < 0 THEN Len(s) ELSE pos
  IN  Slice(s, 0, IF end < n THEN end ELSE n)

\* ^(PARM|UNIT|EQNS|BITS)\.(.*)$
TelemetryForms ==
  { Str(<<"P", "A", "R", "M">>), Str(<<"U", "N", "I", "T">>),
    Str(<<"E", "Q", "N", "S">>), Str(<<"B", "I", "T", "S">>) }

TelemetryConfigRe(body) ==
  /\ Len(body) >= 5
  /\ SubSeq(body, 1, 4) \in TelemetryForms
  /\ body[5] = 46
  /\ All(body, NotNewline)

\* vals[:n] when len(vals) > n
FirstN(vals, n) == IF Len(vals) > n THEN SubSeq(vals, 1, n) ELSE vals

\* defvals: vals padded with empty names to n entries
Padded(vals, n) == [i \in 1..n |-> IF i <= Len(vals) THEN vals[i] ELSE <<>>]

\* ^[-]?\d*\.?\d+$
IsDigitOrDot(c) == IsDigit(c) \/ c = 46

EqnsNumberRe(val) ==
  LET digits == IF val # <<>> /\ val[1] = 45 THEN Tail(val) ELSE val
  IN  /\ digits # <<>>
      /\ All(digits, IsDigitOrDot)
      /\ Count(digits, 46) <= 1
      /\ IsDigit(digits[Len(digits)])

\* ^([01]{8}),(.{0,23})$
IsBit(c) == c \in {48, 49}

BitsRe(t) ==
  /\ Len(t) >= 9 /\ Len(t) <= 32
  /\ All(SubSeq(t, 1, 8), IsBit)
  /\ t[9] = 44
  /\ All(t, NotNewline)

\* strconv.Itoa(idx+1) for the places of an EQNS list
EqnsPlace ==
  <<"1", "2", "3", "4", "5", "6", "7", "8", "9", "10", "11", "12", "13",
    "14", "15">>

\* the error of the PARM and UNIT branch for the names kept
NamesError(form, vals) ==
  IF \E i \in 1..Len(vals) : Len(vals[i]) > 20
  THEN IF form = Str(<<"P", "A", "R", "M">>)
       THEN "incorrect format of PARM (name too long?)"
       ELSE "incorrect format of UNIT (name too long?)"
  ELSE NoErr

\* the error of the EQNS branch: the first value that is not empty and is
\* not a number
EqnsError(eqns) ==
  LET bad == {i \in 1..Len(eqns) :
                eqns[i] # <<>> /\ ~EqnsNumberRe(eqns[i])}
  IN  IF bad = {} THEN NoErr
      ELSE "value at " \o EqnsPlace[CHOOSE i \in bad : \A k \in bad : i <= k]
           \o " is not a number in EQNS"

\* the PARM and UNIT branch
TelemetryNames(p, form, vals, e) ==
  IF e # NoErr THEN [p |-> p, err |-> e]
  ELSE IF form = Str(<<"P", "A", "R", "M">>)
  THEN [p |-> [p EXCEPT !.TPARM = Padded(vals, 13)], err |-> NoErr]
  ELSE [p |-> [p EXCEPT !.TUNIT = Padded(vals, 13)], err |-> NoErr]

\* the BITS branch on the right-trimmed text
TelemetryBits(p, t) ==
  IF ~BitsRe(t)
  THEN [p |-> p, err |-> "incorrect format of BITS (title too long?)"]
  ELSE [p |-> [p EXCEPT !.TBITS = SubSeq(t, 1, 8),
                        !.Title = Trim(From(t, 9), {32})],
        err |-> NoErr]

\* the switch on the form; the coefficients of TEQNS are floating-point
\* numbers and are not part of the record of this model
TelemetryForm(p, form, names, text) ==
  IF form \in {Str(<<"P", "A", "R", "M">>), Str(<<"U", "N", "I", "T">>)}
  THEN TelemetryNames(p, form, FirstN(names, 13),
                      NamesError(form, FirstN(names, 13)))
  ELSE IF form = Str(<<"E", "Q", "N", "S">>)
  THEN [p |-> p, err |-> EqnsError(FirstN(names, 15))]
  ELSE TelemetryBits(p, text)

\* parseTelemetryConfig(body) (string, error): the record and the error
parseTelemetryConfig(p, body) ==
  IF ~TelemetryConfigRe(body) THEN [p |-> p, err |-> NoErr]
  ELSE TelemetryForm([p EXCEPT !.Format = "telemetry-message"],
                     SubSeq(body, 1, 4),
                     Split(TrimRight(From(body, 5), {32}), 44),
                     TrimRight(From(body, 5), {32}))

IsAckOrRej(t) == t \in {Str(<<"a", "c", "k">>), Str(<<"r", "e", "j">>)}

\* ^(ack|rej)([A-Za-z0-9]{2})}([A-Za-z0-9]{2})?$
ReplyAckRe(body) ==
  /\ Len(body) \in {6, 8}
  /\ IsAckOrRej(SubSeq(body, 1, 3))
  /\ All(SubSeq(body, 4, 5), IsAlnum)
  /\ body[6] = 125
  /\ All(SubSeq(body, 7, Len(body)), IsAlnum)

\* ^(ack|rej)([A-Za-z0-9]{1,5})$
AckRe(body) ==
  /\ Len(body) >= 4 /\ Len(body) <= 8
  /\ IsAckOrRej(SubSeq(body, 1, 3))
  /\ All(SubSeq(body, 4, Len(body)), IsAlnum)

\* {([A-Za-z0-9]{2})}([A-Za-z0-9]{2})?$ : the length of the second capture
\* of the match, or -1 when the text has no match
NewNumberAck(body) ==
  LET n == Len(body)
  IN  IF /\ n >= 4 /\ body[n - 3] = 123 /\ body[n] = 125
         /\ All(SubSeq(body, n - 2, n - 1), IsAlnum)
      THEN 0
      ELSE IF /\ n >= 6 /\ body[n - 5] = 123 /\ body[n - 2] = 125
              /\ All(SubSeq(body, n - 4, n - 3), IsAlnum)
              /\ All(SubSeq(body, n - 1, n), IsAlnum)
      THEN 2
      ELSE -1

\* {([A-Za-z0-9]{1,5})$ : the length of the capture, or 0 when the text has
\* no match
OldNumberLen(body) ==
  LET n == Len(body)
      lens == {k \in 1..5 : /\ n >= k + 1 /\ body[n - k] = 123
                            /\ All(SubSeq(body, n - k + 1, n), IsAlnum)}
  IN  IF lens = {} THEN 0 ELSE CHOOSE k \in lens : TRUE

\* the new-format branch with removeLen one too small
NewNumberShort(p, body, ack) ==
  LET n == Len(body)
      removeLen == 3 + ack
  IN  [p EXCEPT !.MessageText = Trim(Slice(body, 0, n - removeLen), {32}),
                !.MsgNo = Slice(body, n - (4 + ack) + 1, n - (4 + ack) + 3),
                !.AckMsgNo = From(body, n - ack)]

\* the new-format branch: text{MM}AA
NewNumber(p, body, ack) ==
  LET n == Len(body)
      removeLen == 4 + ack
  IN  [p EXCEPT !.MessageText = Trim(Slice(body, 0, n - removeLen), {32}),
                !.MsgNo = Slice(body, n - removeLen + 1, n - removeLen + 3),
                !.AckMsgNo = From(body, n - ack)]

\* the old-format branch: text{number
OldNumber(p, body, len) ==
  LET n == Len(body)
      removeLen == 1 + len
  IN  [p EXCEPT !.MessageText = Trim(Slice(body, 0, n - removeLen), {32}),
                !.MsgNo = From(body, n - len)]

\* the regular message body: the text and its message number
MessageNumber(p, body, ack, len) ==
  IF ack >= 0 THEN NewNumber(p, body, ack)
  ELSE IF len > 0 THEN OldNumber(p, body, len)
  ELSE [p EXCEPT !.MessageText = Trim(body, {32})]

\* the body of a message after its addressee: ack, rej or text
MessageBody(p, body) ==
  IF ReplyAckRe(body)
  THEN [p EXCEPT !.Response = SubSeq(body, 1, 3), !.MsgNo = SubSeq(body, 4, 5),
                 !.AckMsgNo = From(body, 6)]
  ELSE IF AckRe(body)
  THEN [p EXCEPT !.Response = SubSeq(body, 1, 3), !.MsgNo = From(body, 3)]
  ELSE MessageNumber(p, body, NewNumberAck(body), OldNumberLen(body))

\* parseMessage(body): the error of parseTelemetryConfig is dropped and its
\* format is overwritten
parseMessage(p, body) ==
  IF BulletinRe(body)
  THEN LET identifier == TrimRight(SubSeq(body, 5, 9), {32})
       IN  Ok([p EXCEPT !.Format = IF identifier # <<>> THEN "group-bulletin"
                                   ELSE "bulletin",
                        !.MessageText = Trim(DotPrefix(From(body, 10), 67),
                                             {32}),
                        !.BID = <<body[4]>>, !.Identifier = identifier])
  ELSE IF AnnouncementRe(body)
  THEN Ok([p EXCEPT !.Format = "announcement",
                    !.MessageText = Trim(DotPrefix(From(body, 10), 67), {32}),
                    !.AID = <<body[4]>>,
                    !.Identifier = TrimRight(SubSeq(body, 5, 9), {32})])
  ELSE IF ~AddresseeRe(body) THEN Ok(p)
  ELSE Ok(MessageBody(
            [parseTelemetryConfig(
               [p EXCEPT !.Addressee = TrimRight(SubSeq(body, 1, 9), {32})],
               From(body, 10)).p EXCEPT !.Format = "message"],
            From(body, 10)))

(***************************************************************************)
(* parseWeather                                                            *)
(***************************************************************************)
\* ^(\d{8})c[. \d]{3}s[. \d]{3}g[. \d]{3}t[. \d]{3}
WeatherRe(body) ==
  /\ Len(body) >= 24
  /\ All(SubSeq(body, 1, 8), IsDigit)
  /\ body[9] = 99 /\ All(SubSeq(body, 10, 12), IsDigitBlankDot)
  /\ body[13] = 115 /\ All(SubSeq(body, 14, 16), IsDigitBlankDot)
  /\ body[17] = 103 /\ All(SubSeq(body, 18, 20), IsDigitBlankDot)
  /\ body[21] = 116 /\ All(SubSeq(body, 22, 24), IsDigitBlankDot)

\* parseWeather(body) (string, error)
parseWeather(p, body) ==
  IF ~WeatherRe(body)
  THEN Fail(p, "invalid positionless weather report format")
  ELSE LET w == parseWeatherData(p, From(body, 8))
       IN  [st |-> w.st, err |-> w.err, p |-> w.p]

(***************************************************************************)
(* parseThirdParty, parseBody, Parse                                       *)
(***************************************************************************)
\* the map unsupportedFormats: discriminator -> description
unsupportedFormats ==
  { [key |-> Str(<<"#">>),
     val |-> Str(<<"r", "a", "w", " ", "w", "e", "a", "t", "h", "e", "r", " ", "r", "e", "p", "o", "r", "t">>)],
    [key |-> Str(<<"$">>),
     val |-> Str(<<"r", "a", "w", " ", "g", "p", "s">>)],
    [key |-> Str(<<"%">>),
     val |-> Str(<<"a", "g", "r", "e", "l", "o">>)],
    [key |-> Str(<<"&">>),
     val |-> Str(<<"r", "e", "s", "e", "r", "v", "e", "d">>)],
    [key |-> Str(<<"(">>),
     val |-> Str(<<"u", "n", "u", "s", "e", "d">>)],
    [key |-> Str(<<")">>),
     val |-> Str(<<"i", "t", "e", "m", " ", "r", "e", "p", "o", "r", "t">>)],
    [key |-> Str(<<"*">>),
     val |-> Str(<<"c", "o", "m", "p", "l", "e", "t", "e", " ", "w", "e", "a", "t", "h", "e", "r", " ", "r", "e", "p", "o", "r", "t">>)],
    [key |-> Str(<<"+">>),
     val |-> Str(<<"r", "e", "s", "e", "r", "v", "e", "d">>)],
    [key |-> Str(<<"-">>),
     val |-> Str(<<"u", "n", "u", "s", "e", "d">>)],
    [key |-> Str(<<".">>),
     val |-> Str(<<"r", "e", "s", "e", "r", "v", "e", "d">>)],
    [key |-> Str(<<"<">>),
     val |-> Str(<<"s", "t", "a", "t", "i", "o", "n", " ", "c", "a", "p", "a", "b", "i", "l", "i", "t", "i", "e", "s">>)],
    [key |-> Str(<<"?">>),
     val |-> Str(<<"g", "e", "n", "e", "r", "a", "l", " ", "q", "u", "e", "r", "y", " ", "f", "o", "r", "m", "a", "t">>)],
    [key |-> Str(<<"T">>),
     val |-> Str(<<"t", "e", "l", "e", "m", "e", "t", "r", "y", " ", "r", "e", "p", "o", "r", "t">>)],
    [key |-> Str(<<"[">>),
     val |-> Str(<<"m", "a", "i", "d", "e", "n", "h", "e", "a", "d", " ", "l", "o", "c", "a", "t", "o", "r", " ", "b", "e", "a", "c", "o", "n">>)],
    [key |-> Str(<<"\\">>),
     val |-> Str(<<"u", "n", "u", "s", "e", "d">>)],
    [key |-> Str(<<"]">>),
     val |-> Str(<<"u", "n", "u", "s", "e", "d">>)],
    [key |-> Str(<<"^">>),
     val |-> Str(<<"u", "n", "u", "s", "e", "d">>)] }

\* the loop "for _, f := range unsupportedFormats": f is bound to the value
\* of each entry
IsUnsupported(packetType) ==
  \E f \in {e.val : e \in unsupportedFormats} : packetType = f

\* the second case label of the Mic-E branch, a mis-encoded backquote
MicEMisencoded == <<195, 162, 226, 130, 172, 203, 156>>

\* Parse(packet); utc is what time.Now().UTC() returns during the call
RECURSIVE Parse(_, _)

\* ThirdPartyResult without the test of the error of the inner call
ThirdPartyResultUnchecked(p, inner) ==
  IF inner.st = "panic" THEN Panic(inner.err)
  ELSE Ok([p EXCEPT !.SubPacket = <<inner.p>>])

\* parseThirdParty after the inner call: inner is what Parse returned
ThirdPartyResult(p, inner) ==
  IF inner.st = "panic" THEN Panic(inner.err)
  ELSE IF inner.st = "error" THEN Fail(p, inner.err)
  ELSE Ok([p EXCEPT !.SubPacket = <<inner.p>>])

\* the result r of a call under which Parse calls are nested d deep
Nested(r, d) == [st |-> r.st, err |-> r.err, p |-> r.p, depth |-> d]

\* parseThirdParty around its call of Parse: the call is one level of
\* nesting more than the calls nested in it
ThirdPartyCall(p, inner) ==
  Nested(ThirdPartyResult(p, inner), inner.depth + 1)

\* parseThirdParty(body) error
parseThirdParty(p, body, utc) ==
  ThirdPartyCall([p EXCEPT !.Format = "thirdparty"], Parse(body, utc))

\* Dispatch with the limit on the offset of '!' one too high
DispatchOffByOne(packetType, body) ==
  IF packetType = <<125>> THEN "thirdparty"
  ELSE IF packetType = <<44>> THEN "invalid"
  ELSE IF packetType = <<123>> THEN "user-defined"
  ELSE IF packetType = <<62>> THEN "status"
  ELSE IF packetType \in {<<96>>, MicEMisencoded, <<39>>} THEN "mic-e"
  ELSE IF packetType = <<58>> THEN "message"
  ELSE IF packetType = <<95>> THEN "weather"
  ELSE IF packetType \in {<<33>>, <<61>>, <<47>>, <<64>>, <<59>>}
  THEN "position"
  ELSE IF Index(body, 33) >= 0 /\ Index(body, 33) <= 40 THEN "position"
  ELSE "invalid"

\* the sub-decoder the switch of parseBody selects
Dispatch(packetType, body) ==
  IF packetType = <<125>> THEN "thirdparty"
  ELSE IF packetType = <<44>> THEN "invalid"
  ELSE IF packetType = <<123>> THEN "user-defined"
  ELSE IF packetType = <<62>> THEN "status"
  ELSE IF packetType \in {<<96>>, MicEMisencoded, <<39>>} THEN "mic-e"
  ELSE IF packetType = <<58>> THEN "message"
  ELSE IF packetType = <<95>> THEN "weather"
  ELSE IF packetType \in {<<33>>, <<61>>, <<47>>, <<64>>, <<59>>}
  THEN "position"
  ELSE IF Index(body, 33) >= 0 /\ Index(body, 33) < 40 THEN "position"
  ELSE "invalid"

\* what parseBody returns when it rejects the body before the switch
BodyRejected(p, e) ==
  [st |-> "error", err |-> e, p |-> p, decoder |-> "none", start |-> <<>>,
   depth |-> 0]

\* what parseBody returns after the sub-decoder returned r
BodyResult(r, decoder, start) ==
  [st |-> r.st, err |-> r.err, p |-> r.p, decoder |-> decoder,
   start |-> start,
   depth |-> IF decoder = "thirdparty" THEN r.depth ELSE 0]

\* what parseBody returns after parsePosition returned pos
BodyPosition(pos) == BodyResult(pos, "position", pos.start)

\* the switch of parseBody on the sub-decoder selected
BodySwitch(p, packetType, body, decoder, utc) ==
  IF decoder = "position"
  THEN BodyPosition(parsePosition(p, packetType, body, utc))
  ELSE BodyResult(
         IF decoder = "thirdparty" THEN parseThirdParty(p, body, utc)
         ELSE IF decoder = "invalid" THEN parseInvalid(p, body)
         ELSE IF decoder = "user-defined" THEN parseUserDefined(p, body)
         ELSE IF decoder = "status" THEN parseStatus(p, body)
         ELSE IF decoder = "mic-e" THEN parseMicE(p, p.To, body)
         ELSE IF decoder = "message" THEN parseMessage(p, body)
         ELSE parseWeather(p, body),
         decoder, <<>>)

\* parseBody on the packet type and the body after it
BodyTyped(p, packetType, body, utc) ==
  IF Len(body) = 0 /\ packetType # <<62>>
  THEN BodyRejected(p, "packet body is empty after packet type character")
  ELSE IF IsUnsupported(packetType)
  THEN BodyRejected(p, "packet type is unsupported")
  ELSE BodySwitch(p, packetType, body, Dispatch(packetType, body), utc)

\* parseBody(body) error; decoder names the sub-decoder that was called
\* ("none" when the body is rejected before the switch), start the body
\* at which the position decoder starts
parseBody(p, body0, utc) ==
  BodyTyped(p, Slice(body0, 0, 1), From(body0, 1), utc)

\* Parse after parseHeader returned h
ParseBody(h, body, utc) ==
  IF h.st # "ok" THEN BodyRejected(h.p, h.err)
  ELSE parseBody(h.p, body, utc)

\* Parse after the split sp of the trimmed line at the first ':'
ParseSplit(parsed, sp, utc) ==
  IF ~sp.ok THEN BodyRejected(parsed, "packet has no body")
  ELSE IF Len(sp.head) = 0 \/ Len(sp.tail) = 0
  THEN BodyRejected(parsed, "packet head or body is empty")
  ELSE ParseBody(parseHeader(parsed, sp.head), sp.tail, utc)

\* Parse with the record that holds the raw line
ParseInto(parsed, packet0, utc) ==
  IF packet0 = <<>> THEN BodyRejected(parsed, "packet is empty")
  ELSE ParseSplit(parsed, SplitOnce(Trim(packet0, {13, 10}), 58), utc)

\* Parse(packet) with the default options
Parse(packet0, utc) ==
  ParseInto([ZeroParsed EXCEPT !.Raw = packet0], packet0, utc)

(***************************************************************************)
(* Passcode (passcode.go)                                                  *)
(***************************************************************************)
\* const key = 0x73e2
key == 29666

\* a ^ b on non-negative integers
RECURSIVE Xor(_, _)
Xor(a, b) ==
  IF a = 0 THEN b
  ELSE IF b = 0 THEN a
  ELSE 2 * Xor(a \div 2, b \div 2) + ((a + b) % 2)

\* strings.ToUpper on ASCII text
ToUpper(s) == [i \in 1..Len(s) |-> IF IsLower(s[i]) THEN s[i] - 32 ELSE s[i]]

\* the callsign taken whole, its SSID included
RootCallWithSSID(callsignText) == callsignText

\* strings.SplitN(callsign, "-", 2)[0]
RootCall(callsignText) ==
  LET pos == Index(callsignText, 45)
  IN  IF pos < 0 THEN callsignText ELSE Slice(callsignText, 0, pos)

\* the loop over the byte pairs of data, from pair i on; a last byte
\* without a partner is not read
RECURSIVE HashPairs(_, _, _)
HashPairs(hash, data, i) ==
  IF i + 1 < Len(data)
  THEN HashPairs(Xor(Xor(hash, data[i + 1] * 256), data[i + 2]), data, i + 2)
  ELSE hash

\* Passcode(callsign) after the SSID is cut off
PasscodeOf(rootCall) ==
  HashPairs(key,
            ToUpper(IF Len(rootCall) > 8 THEN Slice(rootCall, 0, 8)
                    ELSE rootCall),
            0) % 32768

\* Passcode(callsign) int
Passcode(callsignText) == PasscodeOf(RootCall(callsignText))

(***************************************************************************)
(* The cache of compiled patterns (regexp.go)                              *)
(***************************************************************************)
\* Lock() of a mutex that is taken as a read lock: never waits
CanLockShared(holder) == TRUE

\* c.l.Lock() goes on when no goroutine holds the mutex
CanLock(holder) == holder = 0

(***************************************************************************)
(* QConstruct (qConstruct/replace.go)                                      *)
(*                                                                         *)
(* A []string is a slice [arr, len] into a backing array of the heap; the  *)
(* length of the array is the capacity of the slice.  Two slices with the  *)
(* same arr share their elements.                                          *)
(***************************************************************************)
ConnectionDirectUDP == 0
ConnectionUnverified == 1
ConnectionVerifiedClientOnly == 2
ConnectionVerified == 3
ConnectionOutboundServer == 4
ConnectionSendOnly == 5
ConnectionClientOnly == 6

\* strings.EqualFold on ASCII text
EqualFold(a, b) == ToUpper(a) = ToUpper(b)

HasPrefix(t, prefix) ==
  Len(t) >= Len(prefix) /\ SubSeq(t, 1, Len(prefix)) = prefix

HasSuffix(t, suffix) ==
  Len(t) >= Len(suffix)
  /\ SubSeq(t, Len(t) - Len(suffix) + 1, Len(t)) = suffix

TrimSuffix(t, suffix) ==
  IF HasSuffix(t, suffix) THEN SubSeq(t, 1, Len(t) - Len(suffix)) ELSE t

\* the elements of slice sl in heap h
Elements(h, sl) == SubSeq(h[sl.arr], 1, sl.len)

\* r.Path as a sequence
PathOf(r) == Elements(r.heap, r.Path)

\* r.Path[i] = x, i counted from 0
SetPath(r, i, x) == [r EXCEPT !.heap[r.Path.arr][i + 1] = x]

\* r.Path = r.Path[:len(r.Path)-1]
DropLast(r) == [r EXCEPT !.Path.len = @ - 1]

\* r.Path = append(r.Path, xs...): in place when the capacity allows, else
\* into a new array of at least twice the capacity
AppendPath(r, xs) ==
  LET cap == Len(r.heap[r.Path.arr])
      needed == r.Path.len + Len(xs)
      newcap == IF needed > 2 * cap THEN needed ELSE 2 * cap
  IN  IF needed <= cap
      THEN [r EXCEPT !.heap[r.Path.arr] =
                       [i \in 1..cap |->
                          IF i > r.Path.len /\ i <= needed
                          THEN xs[i - r.Path.len] ELSE @[i]],
                     !.Path.len = needed]
      ELSE [r EXCEPT !.heap =
                       Append(@, [i \in 1..newcap |->
                                    IF i <= r.Path.len
                                    THEN r.heap[r.Path.arr][i]
                                    ELSE IF i <= needed
                                    THEN xs[i - r.Path.len] ELSE <<>>]),
                     !.Path = [arr |-> Len(r.heap) + 1, len |-> needed]]

\* strings.HasPrefix(element, "q") && len(element) == 3
IsQConstruct(element) == Len(element) = 3 /\ element[1] = 113

\* hasQConstruct()
hasQConstruct(r) == \E i \in 1..r.Path.len : IsQConstruct(PathOf(r)[i])

\* hasSpecificQConstruct(qType)
hasSpecificQConstruct(r, qType) ==
  \E i \in 1..r.Path.len : PathOf(r)[i] = qType

\* countQConstructs()
countQConstructs(r) ==
  Cardinality({i \in 1..r.Path.len : IsQConstruct(PathOf(r)[i])})

\* findQConstructIndex(): counted from 0, -1 when there is none
findQConstructIndex(r) ==
  IF hasQConstruct(r)
  THEN (CHOOSE i \in 1..r.Path.len :
          /\ IsQConstruct(PathOf(r)[i])
          /\ \A j \in 1..(i - 1) : ~IsQConstruct(PathOf(r)[j])) - 1
  ELSE -1

\* replaceQConstruct(newQType, viaCall) once the q construct is written
ReplaceVia(r, index, viaCall) ==
  IF index + 1 < r.Path.len THEN SetPath(r, index + 1, viaCall)
  ELSE AppendPath(r, <<viaCall>>)

\* replaceQConstruct(newQType, viaCall)
replaceQConstruct(r, newQType, viaCall) ==
  IF findQConstructIndex(r) >= 0
  THEN ReplaceVia(SetPath(r, findQConstructIndex(r), newQType),
                  findQConstructIndex(r), viaCall)
  ELSE r

\* hasTCPIPPath()
hasTCPIPPath(r) ==
  hasSpecificQConstruct(r, Str(<<"T", "C", "P", "I", "P", "*">>))

\* containsServerLogin(serverLogin)
containsServerLogin(r, serverLogin) ==
  \E i \in 1..r.Path.len : EqualFold(PathOf(r)[i], serverLogin)

\* hasDuplicateCallsigns()
hasDuplicateCallsigns(r) ==
  \E i, j \in 1..r.Path.len :
    /\ i < j
    /\ ValidateCallsign(PathOf(r)[i]) /\ ValidateCallsign(PathOf(r)[j])
    /\ ToUpper(PathOf(r)[i]) = ToUpper(PathOf(r)[j])

\* containsLoginAfterQ(login)
containsLoginAfterQ(r, login) ==
  \E i \in 1..r.Path.len :
    /\ IsQConstruct(PathOf(r)[i])
    /\ i + 1 <= r.Path.len /\ EqualFold(PathOf(r)[i + 1], login)

\* an octet of a dotted IPv4 address, as netip.ParseAddr reads it
IsOctet(t) ==
  /\ Len(t) \in 1..3 /\ All(t, IsDigit)
  /\ (Len(t) > 1 => t[1] # 48)
  /\ Atoi(t) <= 255

\* %02X
HexDigit(n) == IF n < 10 THEN 48 + n ELSE 55 + n
Hex2(n) == <<HexDigit(n \div 16), HexDigit(n % 16)>>

\* ipToHex(ipStr) for text that is an IPv4 address or no address at all
ipToHex(ipStr) ==
  LET parts == Split(ipStr, 46)
  IN  IF Len(parts) = 4 /\ \A i \in 1..4 : IsOctet(parts[i])
      THEN Hex2(Atoi(parts[1])) \o Hex2(Atoi(parts[2]))
           \o Hex2(Atoi(parts[3])) \o Hex2(Atoi(parts[4]))
      ELSE Str(<<"0", "0", "0", "0", "0", "0", "0", "0">>)

Drop(r, reason, loop) ==
  [r EXCEPT !.ShouldDrop = TRUE, !.DropReason = reason,
            !.IsLoop = IF loop THEN TRUE ELSE @]

\* result.Path = p.Path: the result shares the array of the packet
NewResultAliased(heap, path) ==
  [heap |-> heap, Path |-> path, ShouldDrop |-> FALSE, DropReason |-> "",
   IsLoop |-> FALSE]

\* result := &QResult{Path: make([]string, len(p.Path))}
\* copy(result.Path, p.Path)
NewResult(heap, path) ==
  [heap |-> Append(heap, Elements(heap, path)),
   Path |-> [arr |-> Len(heap) + 1, len |-> path.len],
   ShouldDrop |-> FALSE, DropReason |-> "", IsLoop |-> FALSE]

\* applyInitialProcessing after the trailing q construct is removed
InitialLogin(r, from, config) ==
  IF ~hasQConstruct(r) /\ EqualFold(from, config.ClientLogin)
  THEN AppendPath(r, <<IF config.IsVerified
                   THEN Str(<<"T", "C", "P", "I", "P", "*">>)
                   ELSE Str(<<"T", "C", "P", "X", "X", "*">>)>>)
  ELSE r

\* applyInitialProcessing(p, config)
applyInitialProcessing(r, from, config) ==
  InitialLogin(IF r.Path.len > 0 /\ IsQConstruct(PathOf(r)[r.Path.len])
               THEN DropLast(r) ELSE r,
               from, config)

\* checkForLoopsBeforeProcessing(config): the result, dropped or untouched
checkForLoopsBeforeProcessing(r, config) ==
  IF hasSpecificQConstruct(r, Str(<<"q", "A", "Z">>))
  THEN Drop(r, "qAZ construct - server-client command packet", FALSE)
  ELSE IF hasSpecificQConstruct(r, Str(<<"q", "A", "C">>)) /\ ~hasTCPIPPath(r)
  THEN Drop(r, "qAC construct without TCPIP* path", FALSE)
  ELSE IF containsServerLogin(r, config.ServerLogin)
  THEN Drop(r, "Loop detected - server login found in q construct", TRUE)
  ELSE IF hasDuplicateCallsigns(r)
  THEN Drop(r, "Loop detected - duplicate callsign-SSID in q construct", TRUE)
  ELSE r

\* processDirectUDP(config)
processDirectUDP(r, config) ==
  IF countQConstructs(r) = 1
  THEN replaceQConstruct(r, Str(<<"q", "A", "U">>), config.ServerLogin)
  ELSE IF countQConstructs(r) > 1
  THEN Drop(r, "Multiple q constructs in UDP packet", FALSE)
  ELSE AppendPath(r, <<Str(<<"q", "A", "U">>), config.ServerLogin>>)

\* processUnverified(config, fromCall)
processUnverified(r, config, fromCall) ==
  IF ~EqualFold(fromCall, config.ClientLogin)
  THEN Drop(r, "FROMCALL doesn't match login in unverified connection",
            FALSE)
  ELSE IF hasQConstruct(r)
  THEN replaceQConstruct(r, Str(<<"q", "A", "X">>), config.ServerLogin)
  ELSE AppendPath(r, <<Str(<<"q", "A", "X">>), config.ServerLogin>>)

\* the switch on the q construct at index, with its via call
ClientOnlySwitch(r, config, index, qType, viaCall) ==
  IF qType \in {Str(<<"q", "A", "R">>), Str(<<"q", "A", "r">>)}
  THEN SetPath(r, index, Str(<<"q", "A", "o">>))
  ELSE IF qType = Str(<<"q", "A", "S">>)
  THEN SetPath(r, index, Str(<<"q", "A", "O">>))
  ELSE IF /\ qType = Str(<<"q", "A", "C">>)
          /\ ~EqualFold(viaCall, config.ServerLogin)
          /\ ~EqualFold(viaCall, config.ClientLogin)
  THEN SetPath(r, index, Str(<<"q", "A", "O">>))
  ELSE r

\* processVerifiedClientOnly(config, fromCall)
processVerifiedClientOnly(r, config, fromCall) ==
  IF EqualFold(fromCall, config.ClientLogin) THEN r
  ELSE IF hasQConstruct(r)
  THEN IF findQConstructIndex(r) + 1 < r.Path.len
       THEN ClientOnlySwitch(r, config, findQConstructIndex(r),
                             PathOf(r)[findQConstructIndex(r) + 1],
                             PathOf(r)[findQConstructIndex(r) + 2])
       ELSE r
  ELSE IF r.Path.len > 1 /\ HasSuffix(PathOf(r)[r.Path.len], <<44, 73>>)
  THEN AppendPath(DropLast(r),
              <<Str(<<"q", "A", "o">>),
                TrimSuffix(PathOf(r)[r.Path.len], <<44, 73>>)>>)
  ELSE AppendPath(r, <<Str(<<"q", "A", "O">>), config.ClientLogin>>)

\* the ,I construct at the end of the path becomes qType and the via call
ViaInternet(r, qType) ==
  AppendPath(SetPath(r, r.Path.len - 1, qType),
         <<TrimSuffix(PathOf(r)[r.Path.len], <<44, 73>>)>>)

\* processStandardConnection(config, fromCall)
processStandardConnection(r, config, fromCall) ==
  IF hasQConstruct(r) THEN r
  ELSE IF r.Path.len > 0 /\ HasSuffix(PathOf(r)[r.Path.len], <<44, 73>>)
  THEN ViaInternet(r,
         IF EqualFold(TrimSuffix(PathOf(r)[r.Path.len], <<44, 73>>),
                      config.ClientLogin)
         THEN Str(<<"q", "A", "R">>) ELSE Str(<<"q", "A", "r">>))
  ELSE IF EqualFold(fromCall, config.ClientLogin)
  THEN AppendPath(r, <<IF config.ConnectionType = ConnectionSendOnly
                   THEN Str(<<"q", "A", "O">>) ELSE Str(<<"q", "A", "C">>),
                   config.ServerLogin>>)
  ELSE AppendPath(r, <<Str(<<"q", "A", "S">>), config.ClientLogin>>)

\* processOutboundServer(config)
processOutboundServer(r, config) ==
  IF hasQConstruct(r) \/ r.Path.len = 0 THEN r
  ELSE IF HasSuffix(PathOf(r)[r.Path.len], <<44, 73>>)
  THEN ViaInternet(r, Str(<<"q", "A", "r">>))
  ELSE AppendPath(r, <<Str(<<"q", "A", "S">>), ipToHex(config.RemoteIP)>>)

\* applyTrace(config)
applyTrace(r, config) ==
  AppendPath(IF /\ config.ConnectionType = ConnectionVerified
            /\ ~containsLoginAfterQ(r, config.ClientLogin)
         THEN AppendPath(r, <<config.ClientLogin>>)
         ELSE IF config.ConnectionType = ConnectionOutboundServer
         THEN AppendPath(r, <<ipToHex(config.RemoteIP)>>)
         ELSE r,
         <<config.ServerLogin>>)

\* applyFinalProcessing(config)
applyFinalProcessing(r, config) ==
  IF r.ShouldDrop THEN r
  ELSE IF config.EnableTrace
          \/ hasSpecificQConstruct(r, Str(<<"q", "A", "I">>))
  THEN applyTrace(r, config)
  ELSE r

\* the switch on the connection type
ProcessConnection(r, config, from) ==
  IF config.ConnectionType = ConnectionDirectUDP
  THEN processDirectUDP(r, config)
  ELSE IF config.ConnectionType = ConnectionUnverified
  THEN processUnverified(r, config, from)
  ELSE IF config.ConnectionType = ConnectionVerifiedClientOnly
  THEN processVerifiedClientOnly(r, config, from)
  ELSE IF config.ConnectionType \in {ConnectionVerified, ConnectionSendOnly,
                                     ConnectionClientOnly}
  THEN processStandardConnection(r, config, from)
  ELSE IF config.ConnectionType = ConnectionOutboundServer
  THEN processOutboundServer(r, config)
  ELSE r

\* QConstruct after applyInitialProcessing and the loop check on its
\* result
AfterLoopCheck(checked, config, from) ==
  IF checked.ShouldDrop THEN checked
  ELSE applyFinalProcessing(ProcessConnection(checked, config, from), config)

\* QConstruct(p, config) (*QResult, error): the result and the heap it
\* leaves; the error is always nil
QConstruct(heap, p, config) ==
  AfterLoopCheck(
    checkForLoopsBeforeProcessing(
      applyInitialProcessing(NewResult(heap, p.Path), p.From, config),
      config),
    config, p.From)

(***************************************************************************)
(* Replace                                                                 *)
(***************************************************************************)
\* strings.Join(elems, ",")
RECURSIVE JoinComma(_)
JoinComma(elems) ==
  IF elems = <<>> THEN <<>>
  ELSE IF Len(elems) = 1 THEN Head(elems)
  ELSE Head(elems) \o <<44>> \o JoinComma(Tail(elems))

\* strings.Replace(s, old, new, -1): every occurrence, left to right and
\* not overlapping; an empty old matches before every byte and at the end
RECURSIVE ReplaceEvery(_, _, _)
ReplaceEvery(s, old, new) ==
  IF old = <<>>
  THEN new \o (IF s = <<>> THEN <<>>
               ELSE <<Head(s)>> \o ReplaceEvery(Tail(s), old, new))
  ELSE IF Len(s) < Len(old) THEN s
  ELSE IF SubSeq(s, 1, Len(old)) = old
  THEN new \o ReplaceEvery(From(s, Len(old)), old, new)
  ELSE <<Head(s)>> \o ReplaceEvery(Tail(s), old, new)

\* Replace(packet, toCall, newPath) (string, error)
Replace(pkt, toCall, newPath) ==
  LET split == SplitOnce(pkt, 58)
      head == split.head
      hsplit == SplitOnce(head, 62)
      path == hsplit.tail
  IN  IF ~split.ok THEN [str |-> <<>>, err |-> "packet has no body"]
      ELSE IF Len(head) = 0 THEN [str |-> <<>>, err |-> "packet head is empty"]
      ELSE IF ~hsplit.ok THEN [str |-> <<>>, err |-> "invalid packet header"]
      ELSE [str |-> ReplaceEvery(pkt, path, JoinComma(<<toCall>> \o newPath)),
            err |-> NoErr]

(***************************************************************************)
(* State                                                                   *)
(***************************************************************************)
VARIABLES
  pc,       \* which call returned last: "idle" when none is outstanding
  number,   \* FromDecimal: the number argument
  width,    \* FromDecimal: the variadic width arguments
  encoded,  \* FromDecimal: the returned (string, error)
  text,     \* ToDecimal: the text argument
  decoded,  \* ToDecimal: the returned (int, error)
  utc,      \* the UTC date of the wall clock
  packet,   \* Parse: the line argument
  ret,      \* Parse: the returned (Parsed, error), or the panic
  callsignArg,      \* Passcode: the callsign argument
  passcode,         \* Passcode: the returned int
  CompiledRegexps,  \* the cache: l is the goroutine holding the mutex (0
                    \* when none), r maps a pattern to its compiled
                    \* instance
  getters,          \* per goroutine: its place in Get, its expr argument
                    \* and the instance it returned last
  compiles,         \* per pattern, how often regexp.MustCompile ran
  returned,         \* per pattern, the instances Get has returned
  gets,             \* how many calls of Get were started
  qHeap,            \* QConstruct: the backing arrays when it is called
  qPacket,          \* QConstruct: the fields From and Path of *p
  qConfig,          \* QConstruct: the *QConfig argument
  qResult,          \* QConstruct: the returned *QResult and the backing
                    \* arrays when it returns
  rPacket,          \* Replace: the packet argument
  rToCall,          \* Replace: the toCall argument
  rNewPath,         \* Replace: the newPath argument
  rReturn,          \* Replace: the returned (string, error)
  conn,             \* Client: the field conn, 0 for nil, else the number of
                    \* the net.Conn that net.Dial returned
  closed,           \* Client: the field closed
  done,             \* Client: whether the channel done is closed
  up,               \* Client: the field up
  mu,               \* Client: the goroutine that holds the mutex mu, or 0
  retryTimes,       \* Client: the field retryTimes
  open,             \* the connections that no Close() was called on
  tasks,            \* the goroutines of the client, in the order they were
                    \* started; the first is the caller of Connect and Close
  connects,         \* how many calls of Connect returned nil
  crashed           \* whether a goroutine panicked, which ends the process

passvars == <<callsignArg, passcode>>

cachevars == <<CompiledRegexps, getters, compiles, returned, gets>>

qvars == <<qHeap, qPacket, qConfig, qResult>>

\* the state of the components outside the codec, the decoder, Passcode
\* and the cache
replvars == <<rPacket, rToCall, rNewPath, rReturn>>

clientvars ==
  <<conn, closed, done, up, mu, retryTimes, open, tasks, connects, crashed>>

extvars == <<qvars, replvars, clientvars>>

vars ==
  <<pc, number, width, encoded, text, decoded, utc, packet, ret, passvars,
    cachevars, extvars>>

b91vars == <<number, width, encoded, text, decoded>>

parservars == <<utc, packet, ret>>

\* what the codec and the decoder leave alone
othervars == <<passvars, cachevars, extvars>>

(***************************************************************************)
(* Bounds and input sets                                                   *)
(***************************************************************************)
\* numbers 0..MaxNumber are encoded, besides the digit-count boundaries
MaxNumber == 120
\* widths 0..MaxWidth are passed to FromDecimal
MaxWidth == 4
\* texts of up to MaxTextLen bytes are passed to ToDecimal
MaxTextLen == 3

\* 91^k-1 and 91^k around each digit count, and the largest 2-digit value
B91Boundaries == {8280, 8281, 753570, 753571, 68574960}

Numbers == (-1..MaxNumber) \cup B91Boundaries

Widths == {<<>>} \cup {<<w>> : w \in -1..MaxWidth}

\* space, '!', 'A', 'z', '{', '|', DEL
B91Alphabet == {32, 33, 65, 122, 123, 124, 127}

Texts == UNION {[1..k -> B91Alphabet] : k \in 0..MaxTextLen}

(***************************************************************************)
(* Base-91 codec: calls                                                    *)
(***************************************************************************)
B91Idle ==
  /\ number = 0 /\ width = <<>> /\ text = <<>>
  /\ encoded = [str |-> <<>>, err |-> NoErr]
  /\ decoded = [val |-> 0, err |-> NoErr]

\* before Parse is called and after its result is dropped
NoRet ==
  [st |-> "none", err |-> NoErr, p |-> ZeroParsed, decoder |-> "none",
   start |-> <<>>, depth |-> 0]

\* the dates the wall clock shows
Clocks ==
  { [year |-> 2026, month |-> 11, day |-> 4],
    [year |-> 2024, month |-> 2, day |-> 29] }

ParserIdle == packet = <<>> /\ ret = NoRet

\* the goroutines that call Get, and the patterns they ask for
NumGoroutines == 3
Goroutines == 1..NumGoroutines
Patterns == {"[0-9L]", "[P-Z]"}
\* Get is called at most MaxGets times
MaxGets == 4

\* callsigns handed to Passcode: with and without SSID, of even and odd
\* length, longer than 8 characters, in both cases
RootCalls ==
  { Str(<<>>), Str(<<"N">>), Str(<<"N", "0", "C", "A", "L", "L">>),
    Str(<<"n", "0", "c", "a", "l", "l">>), Str(<<"N", "0", "C", "A", "L">>),
    Str(<<"B", "G", "5", "Z", "Z", "Z">>), Str(<<"A", "B">>),
    Str(<<"A", "B", "C", "D", "E", "F", "G", "H">>),
    Str(<<"A", "B", "C", "D", "E", "F", "G", "H", "I">>),
    Str(<<"A", "B", "C", "D", "E", "F", "G", "H", "I", "J">>),
    Str(<<"W", "1", "A", "W">>), Str(<<"z", "z", "9", "z", "z", "z", "z">>) }

SSIDs ==
  { Str(<<>>), Str(<<"-">>), Str(<<"-", "1">>), Str(<<"-", "1", "0">>),
    Str(<<"-", "1", "-", "2">>), Str(<<"-", "-">>), Str(<<"-", "A", "B">>),
    Str(<<"-", "N", "0", "C", "A", "L", "L">>), Str(<<"-", "1", "5">>) }

Callsigns == {c \o x : c \in RootCalls, x \in SSIDs}

\* before Passcode is called and after its result is dropped
PassIdle == callsignArg = <<>> /\ passcode = 0

\* the cache after init(), with no call of Get begun
\* no compiled instance
NoRegexp == <<>>

NoGetter == [pc |-> "idle", expr |-> "", re |-> NoRegexp]

CacheIdle ==
  /\ CompiledRegexps = [l |-> 0, r |-> [e \in Patterns |-> NoRegexp]]
  /\ getters = [g \in Goroutines |-> NoGetter]
  /\ compiles = [e \in Patterns |-> 0]
  /\ returned = [e \in Patterns |-> {}]
  /\ gets = 0

\* the logins of the server and of the connected client
ServerLogin == Str(<<"T", "2", "S", "R", "V">>)
ClientLogin == Str(<<"N", "0", "C", "A", "L", "L">>)

\* the configurations: every connection type, with and without trace
QConfigs ==
  { [ServerLogin |-> ServerLogin, ClientLogin |-> ClientLogin,
     ConnectionType |-> t, EnableTrace |-> tr, RemoteIP |-> ip,
     IsVerified |-> v] :
      t \in ConnectionDirectUDP..ConnectionClientOnly, tr \in BOOLEAN,
      ip \in {Str(<<"1", "9", "2", ".", "0", ".", "2", ".", "1", "0">>),
              Str(<<"l", "o", "c", "a", "l">>)},
      v \in BOOLEAN }

\* the senders: the client in both cases, and another station
QFroms ==
  { ClientLogin, Str(<<"n", "0", "c", "a", "l", "l">>),
    Str(<<"B", "G", "5", "Z", "Z", "Z">>) }

\* the paths of the packets handed to QConstruct
QPaths ==
  { <<>>,
    <<Str(<<"W", "I", "D", "E", "1", "-", "1">>)>>,
    <<Str(<<"q", "A", "R">>)>>,
    <<Str(<<"W", "I", "D", "E", "1", "-", "1">>), Str(<<"q", "A", "R">>)>>,
    <<Str(<<"W", "I", "D", "E", "1", "-", "1">>), Str(<<"q", "A", "R">>),
      Str(<<"B", "G", "5", "A", "A", "A">>)>>,
    <<Str(<<"q", "A", "r">>), ClientLogin>>,
    <<Str(<<"q", "A", "S">>), Str(<<"B", "G", "5", "A", "A", "A">>)>>,
    <<Str(<<"q", "A", "Z">>), Str(<<"B", "G", "5", "A", "A", "A">>)>>,
    <<Str(<<"q", "A", "C">>), Str(<<"B", "G", "5", "A", "A", "A">>)>>,
    <<Str(<<"T", "C", "P", "I", "P", "*">>), Str(<<"q", "A", "C">>),
      Str(<<"B", "G", "5", "A", "A", "A">>)>>,
    <<Str(<<"T", "C", "P", "I", "P", "*">>), Str(<<"q", "A", "C">>),
      ClientLogin>>,
    <<Str(<<"q", "A", "I">>), Str(<<"B", "G", "5", "A", "A", "A">>)>>,
    <<Str(<<"W", "I", "D", "E", "1", "-", "1">>), ServerLogin>>,
    <<Str(<<"B", "G", "5", "A", "A", "A">>),
      Str(<<"B", "G", "5", "A", "A", "A">>)>>,
    <<Str(<<"q", "A", "R">>), Str(<<"B", "G", "5", "A", "A", "A">>),
      Str(<<"q", "A", "O">>), Str(<<"B", "G", "5", "B", "B", "B">>)>>,
    <<Str(<<"B", "G", "5", "A", "A", "A", ",", "I">>)>>,
    <<Str(<<"W", "I", "D", "E", "1", "-", "1">>),
      Str(<<"B", "G", "5", "A", "A", "A", ",", "I">>)>>,
    <<Str(<<"W", "I", "D", "E", "1", "-", "1">>),
      Str(<<"N", "0", "C", "A", "L", "L", ",", "I">>)>> }

\* p.Path has up to MaxSpare elements of capacity beyond its length
MaxSpare == 1
\* the generated packets of Replace have at most MaxPacketLen characters
MaxPacketLen == 4
\* WithRetryTimes sets retryTimes to at most MaxRetryTimes
MaxRetryTimes == 2
\* net.Dial succeeds at most MaxDials times
MaxDials == 2
\* the caller calls Connect and Close at most MaxCalls times in all
MaxCalls == 2

\* the backing array of a path with n spare elements
Backing(pa, n) ==
  [i \in 1..(Len(pa) + n) |-> IF i <= Len(pa) THEN pa[i] ELSE <<>>]

NoQResult ==
  [heap |-> <<>>, Path |-> [arr |-> 0, len |-> 0], ShouldDrop |-> FALSE,
   DropReason |-> "", IsLoop |-> FALSE]

NoQConfig ==
  [ServerLogin |-> <<>>, ClientLogin |-> <<>>, ConnectionType |-> 0,
   EnableTrace |-> FALSE, RemoteIP |-> <<>>, IsVerified |-> FALSE]

\* before QConstruct is called and after its result is dropped
QIdle ==
  /\ qHeap = <<>>
  /\ qPacket = [From |-> <<>>, Path |-> [arr |-> 0, len |-> 0]]
  /\ qConfig = NoQConfig
  /\ qResult = NoQResult

ReplIdle ==
  /\ rPacket = <<>> /\ rToCall = <<>> /\ rNewPath = <<>>
  /\ rReturn = [str |-> <<>>, err |-> NoErr]

\* no client was made
ClientIdle ==
  /\ conn = 0 /\ closed = FALSE /\ done = FALSE /\ up = FALSE /\ mu = 0
  /\ retryTimes = 0 /\ open = {} /\ tasks = <<>> /\ connects = 0
  /\ crashed = FALSE

ExtIdle == QIdle /\ ReplIdle /\ ClientIdle

InitBase91 ==
  /\ pc = "idle" /\ B91Idle /\ ParserIdle /\ PassIdle /\ CacheIdle /\ ExtIdle
  /\ utc = [year |-> 2026, month |-> 11, day |-> 4]

\* a caller encodes a number
Encode ==
  /\ pc = "idle"
  /\ \E n \in Numbers, w \in Widths :
       /\ number' = n
       /\ width' = w
       /\ encoded' = FromDecimal(n, w)
  /\ pc' = "encoded"
  /\ UNCHANGED <<text, decoded, parservars, othervars>>

\* the caller decodes what FromDecimal returned
DecodeEncoded ==
  /\ pc = "encoded"
  /\ encoded.err = NoErr
  /\ text' = encoded.str
  /\ decoded' = ToDecimal(encoded.str)
  /\ pc' = "roundtrip"
  /\ UNCHANGED <<number, width, encoded, parservars, othervars>>

\* a caller decodes a text received from outside
DecodeText ==
  /\ pc = "idle"
  /\ \E t \in Texts :
       /\ text' = t
       /\ decoded' = ToDecimal(t)
  /\ pc' = "decoded"
  /\ UNCHANGED <<number, width, encoded, parservars, othervars>>

\* the results are dropped
ReturnBase91 ==
  /\ pc \in {"encoded", "roundtrip", "decoded"}
  /\ pc' = "idle"
  /\ number' = 0 /\ width' = <<>> /\ text' = <<>>
  /\ encoded' = [str |-> <<>>, err |-> NoErr]
  /\ decoded' = [val |-> 0, err |-> NoErr]
  /\ UNCHANGED <<parservars, othervars>>

NextBase91 == Encode \/ DecodeEncoded \/ DecodeText \/ ReturnBase91

SpecBase91 == InitBase91 /\ [][NextBase91]_vars

(***************************************************************************)
(* Packet decoder: input lines                                             *)
(***************************************************************************)
\* sender and destination callsigns of up to MaxCallLen characters
MaxCallLen == 3
\* paths of up to MaxPathElems elements
MaxPathElems == 3
\* up to MaxFill filler characters stand before the first '!'
MaxFill == 41
\* third-party envelopes are nested up to MaxNest deep
MaxNest == 9

\* an uncompressed position, symbol '-' of table '/'
PosOK ==
  Str(<<"4", "9", "0", "3", ".", "5", "0", "N", "/", "0", "7", "2", "0", "1",
        ".", "7", "5", "W", "-">>)

\* sender callsigns besides the short ones
NamedFrom ==
  {
    Str(<<"N", "0", "C", "A", "L", "L">>),
    Str(<<"n", "0", "c", "a", "l", "l", "-", "1">>),
    Str(<<"A", "B", "C", "D", "E", "F", "G", "H", "I">>),
    Str(<<"A", "B", "C", "D", "E", "F", "G", "H", "I", "J">>),
    Str(<<"A", "B", "-", "C", "D", "E", "F", "G", "H">>),
    Str(<<"A", "-", "B", "C", "D", "E", "F", "G", "H", "I">>),
    Str(<<"-", "A", "B", "C", "D", "E", "F", "G", "H">>),
    Str(<<"N", "0", "C", "A", "L", "L", "-", "1", "0">>) }

\* destination callsigns besides the short ones
NamedTo ==
  {
    Str(<<"A", "P", "R", "S">>),
    Str(<<"N", "0", "C", "A", "L", "L">>),
    Str(<<"N", "0", "C", "A", "L", "L", "-", "1", "0">>),
    Str(<<"T", "O", "O", "L", "O", "N", "G", "C", "A", "L", "L", "-", "9",
          "9">>),
    Str(<<"A", "B", "!">>),
    Str(<<"A", "B", "C", "D", "E", "F", "G">>),
    Str(<<"A", "B", "C", "D", "E", "F", "-", "1">>),
    Str(<<"A", "P", "R", "S", "-", "1", "2", "3">>),
    Str(<<"A", "P", "R", "S", "-", "1", "A">>),
    Str(<<"a", "p", "r", "s">>),
    Str(<<"n", "0", "c", "a", "l", "l">>),
    Str(<<"N", "0", "c", "a", "l", "l", "-", "1", "0">>) }

\* path elements
PathElems ==
  {
    Str(<<>>),
    Str(<<" ">>),
    Str(<<"A">>),
    Str(<<"A", "*">>),
    Str(<<"W", "-", "1">>),
    Str(<<"*">>),
    Str(<<"a", "!">>),
    Str(<<"A", "A", "A", "A", "A", "A", "A", "A", "A", "*">>),
    Str(<<"A", "A", "A", "A", "A", "A", "A", "A", "A", "A">>),
    Str(<<" ", "A">>) }

\* what follows the discriminator in the dispatch inputs
Rests ==
  {
    Str(<<"x">>),
    Str(<<"x", "y">>),
    Str(<<"!", "x">>),
    Str(<<"4", "9", "0", "3", ".", "5", "0", "N", "/", "0", "7", "2", "0",
          "1", ".", "7", "5", "W", "-">>),
    Str(<<"x", "!", "4", "9", "0", "3", ".", "5", "0", "N", "/", "0", "7",
          "2", "0", "1", ".", "7", "5", "W", "-">>) }

\* what stands where a timestamp is expected
TimeStamps ==
  {
    Str(<<>>),
    Str(<<"0", "9", "2", "3", "4", "5", "z">>),
    Str(<<"0", "9", "2", "3", "4", "5", "/">>),
    Str(<<"0", "9", "2", "3", "0", "7", "z">>),
    Str(<<"0", "9", "2", "3", "4", "5", "h">>),
    Str(<<"3", "2", "2", "3", "4", "5", "z">>),
    Str(<<"0", "9", "6", "0", "4", "5", "h">>),
    Str(<<"0", "9", "2", "3", "4", "5", "x">>),
    Str(<<"0", "9", "2", "3", "4">>),
    Str(<<"a", "b", "c", "d", "e", "f", "g">>) }

\* coordinate bodies: uncompressed, compressed, malformed
Coords ==
  {
    Str(<<"4", "9", "0", "3", ".", " ", " ", "N", "/", "0", "7", "2", "0", "1", ".", " ", " ", "W", "-">>),
    Str(<<"4", "9", "0", "3", ".", " ", " ", "N", "/", "0", "7", "2", "0", "1", ".", "7", " ", "W", "-">>),
    Str(<<"4", "9", "0", "3", ".", "5", "0", "N", "/", "0", "7", "2", "0",
          "1", ".", "7", "5", "W", "-">>),
    Str(<<"4", "9", "0", "3", ".", "5", "0", "N", "a", "0", "7", "2", "0",
          "1", ".", "7", "5", "W", "-">>),
    Str(<<"4", "9", "0", "3", ".", "5", "0", "N", "/", "0", "7", "2", "0",
          "1", ".", "7", "5", "W">>),
    Str(<<"4", "9", " ", "3", ".", "5", "0", "N", "/", "0", "7", "2", "0",
          "1", ".", "7", "5", "W", "-">>),
    Str(<<"4", "9", "0", "3", ".", "5", " ", "N", "/", "0", "7", "2", "0",
          "1", ".", "7", " ", "W", "-">>),
    Str(<<"4", "9", "0", "3", ".", "5", " ", "N", "/", "0", "7", "2", "0",
          "1", ".", "7", "5", "W", "-">>),
    Str(<<"4", "9", " ", " ", ".", " ", " ", "N", "/", "0", "7", "2", " ",
          " ", ".", " ", " ", "W", "-">>),
    Str(<<"4", "9", " ", "5", ".", " ", " ", "N", "/", "0", "7", "2", " ",
          "5", ".", " ", " ", "W", "-">>),
    Str(<<"9", "9", "0", "3", ".", "5", "0", "N", "/", "0", "7", "2", "0",
          "1", ".", "7", "5", "W", "-">>),
    Str(<<"4", "9", "0", "3", ".", "5", "0", "N", "/", "1", "8", "0", "0",
          "1", ".", "7", "5", "W", "-">>),
    Str(<<"4", "9", "0", "3", ".", "5", "0", "s", "\\", "0", "7", "2", "0",
          "1", ".", "7", "5", "e", ">">>),
    Str(<<"4", "9", "0", "3", ".", "5", "0", "N", "/", "0", "7", "2", "0",
          "1", ".", "7", "5", "W", "_">>),
    Str(<<"4", "9", "0", "3", ".", "5", "0", "N", "/", "0", "7", "2", "0",
          "1", ".", "7", "5", "W", "_", "2", "2", "0", "/", "0", "0", "4",
          "g", "0", "0", "5", "t", "0", "7", "7">>),
    Str(<<"4", "9", "0", "3", ".", "5", "0", "N", "/", "0", "7", "2", "0",
          "1", ".", "7", "5", "W", "_", ".", ".", ".", "/", ".", ".", ".",
          "g", ".", ".", ".", "t", ".", ".", ".">>),
    Str(<<"/", "5", "L", "!", "!", "<", "*", "e", "7", ">", "7", "P", "[">>),
    Str(<<"/", "5", "L", "!", "!", "<", "*", "e", "7", "_", "7", "P", "[",
          "g", "0", "0", "5">>),
    Str(<<"/", "5", "L", "!", "!", "<", "*", "e", "7", "_", " ", "P", "[">>),
    Str(<<"/", "5", "L", "!", "!", "<", "*", "e", "7", ">", " ", "s", "T">>),
    Str(<<"/", "5", "L", " ", "!", "<", "*", "e", "7", ">", "7", "P", "[">>),
    Str(<<"/", "5", "L", "!", "|", "<", "*", "e", "7", ">", "7", "P", "[">>),
    Str(<<"/", "5", "L", "!", "!", "<", "*", "e", "|", ">", "7", "P", "[">>),
    Str(<<"/", "5", "L", "!", "{", "<", "*", "e", "7", ">", "7", "P", "[">>),
    Str(<<"a", "b", "c">>),
    Str(<<>>) }

\* what follows the coordinates
Tails ==
  {
    Str(<<>>),
    Str(<<" ", "c", "o", "m", "m", "e", "n", "t">>),
    Str(<<"/", "A", "=", "0", "0", "1", "2", "3", "4">>) }

\* object name and flag
ObjectHeads ==
  {
    Str(<<"L", "E", "A", "D", "E", "R", " ", " ", " ", "*">>),
    Str(<<"L", "E", "A", "D", "E", "R", " ", " ", " ", "_">>),
    Str(<<"L", "E", "A", "D", "E", "R", " ", " ", "*">>),
    Str(<<"L", "E", "A", "D", "E", "R", " ", " ", " ", "x">>) }

\* what follows the filler of a body with a non-standard discriminator
FillPayloads ==
  {
    Str(<<>>),
    Str(<<"!", "4", "9", "0", "3", ".", "5", "0", "N", "/", "0", "7", "2",
          "0", "1", ".", "7", "5", "W", "-">>),
    Str(<<"!", "z", "z">>),
    Str(<<"!", "!", "/", "5", "L", "!", "!", "<", "*", "e", "7", ">", "7",
          "P", "[">>),
    Str(<<"!", "4", "9", "0", "3", ".", "5", "0", "N", "/", "0", "7", "2",
          "0", "1", ".", "7", "5", "W", "-", "!", "x">>) }

\* discriminators outside the dispatch table
FillDiscriminators ==
  {
    Str(<<"x">>),
    Str(<<"#">>),
    Str(<<"T">>),
    Str(<<"A">>) }

\* destinations of Mic-E packets
MicEDsts ==
  {
    Str(<<"S", "3", "2", "U", "6", "T">>),
    Str(<<"S", "3", "2", "U", "6", "T", "-", "2">>),
    Str(<<"A", "P", "R", "S">>),
    Str(<<"T", "2", "S", "P", "0", "W">>),
    Str(<<"3", "3", "2", "U", "6", "T">>),
    Str(<<"S", "3", "K", "L", "Z", "Z">>),
    Str(<<"S", "L", "L", "L", "L", "L">>),
    Str(<<"S", "3", "2", "U", "Z", "4">>),
    Str(<<"A", "B", "1", "P", "Q", "R">>),
    Str(<<"P", "Q", "R", "P", "Q", "R">>),
    Str(<<"4", "A", "5", "L", "L", "L">>),
    Str(<<"S", "3", "2", "U", "6">>),
    Str(<<"S", "3", "M", "U", "6", "T">>),
    Str(<<"s", "3", "2", "u", "6", "t">>) }

\* Mic-E bodies
MicEBodies ==
  {
    Str(<<"(", "_", "f", "n", "\"", "O", "j", "/">>),
    Str(<<"(", "_", "f", "n", "\"", "O", "j", "/", ">", "h", "e", "l", "l",
          "o">>),
    Str(<<"(", "_", "f", "n", "\"", "O", "j", "/", "]", "\"", "4", "U",
          "}">>),
    Str(<<"5", "_", "f", "n", "\"", "O", "j", "/">>),
    Str(<<"l", "_", "f", "n", "\"", "O", "j", "/">>),
    Str(<<"v", "5", "7", "n", "\"", "O", "j", "/">>),
    Str(<<"a", "b", "c">>),
    Str(<<"(", "_", "f", "n", "\"", "O", "j">>),
    Str(<<"(", "z", "f", "n", "\"", "O", "j", "/">>),
    Str(<<" ", "_", "f", "n", "\"", "O", "j", "/">>),
    Str(<<"(", "_", "f", "n", "\"", "O", "j", "a">>) }

\* message bodies
MessageBodies ==
  {
    Str(<<"N", "0", "C", "A", "L", "L", " ", " ", " ", ":", "H", "e", "l",
          "l", "o", "{", "A", "B", "}", "C", "D">>),
    Str(<<"N", "0", "C", "A", "L", "L", " ", " ", " ", ":", "a", "c", "k",
          "1", "2">>),
    Str(<<"N", "0", "C", "A", "L", "L", " ", " ", " ", ":">>),
    Str(<<"B", "L", "N", "1", " ", " ", " ", " ", " ", ":", "t", "e", "x",
          "t">>),
    Str(<<"B", "L", "N", "1", "W", "X", "G", "R", "P", ":", "t", "e", "x",
          "t">>),
    Str(<<"B", "L", "N", "A", "G", "R", "O", "U", "P", ":", "t", "e", "x",
          "t">>),
    Str(<<"B", "L", "N", "A", " ", " ", " ", " ", " ", ":", "t", "e", "x",
          "t">>),
    Str(<<"b", "l", "n", "1", " ", " ", " ", " ", " ", ":", "t", "e", "x",
          "t">>),
    Str(<<"b", "l", "n", "a", " ", " ", " ", " ", " ", ":", "t", "e", "x",
          "t">>),
    Str(<<"B", "L", "N", "a", " ", " ", " ", " ", " ", ":", "x">>),
    Str(<<"N", "0", "C", "A", "L", "L", " ", " ", " ", ":", "P", "A", "R",
          "M", ".", "A", ",", "B">>),
    Str(<<"N", "0", "C", "A", "L", "L", " ", " ", " ", ":", "B", "I", "T",
          "S", ".", "1">>),
    Str(<<"N", "0", "C", "A", "L", "L", " ", " ", " ", ":", "E", "Q", "N",
          "S", ".", "a">>),
    Str(<<"s", "h", "o", "r", "t">>),
    Str(<<"N", "0", "C", "A", "L", "L", " ", " ", " ", "X", "t", "e", "x",
          "t">>),
    Str(<<"N", "0", "C", "A", "L", "L", "!", " ", " ", ":", "t", "e", "x",
          "t">>),
    Str(<<"N", "0", "C", "A", "L", "L", " ", " ", ":", "t", "e", "x", "t">>),
    Str(<<"N", "0", "C", "A", "L", "L", " ", " ", " ", ":", "H", "e", "l",
          "l", "o", " ", "{", "1", "2", "3", "4", "5">>),
    Str(<<"N", "0", "C", "A", "L", "L", " ", " ", " ", ":", " ", "H", "i",
          " ", "{", "A", "B", "}">>),
    Str(<<"N", "0", "C", "A", "L", "L", " ", " ", " ", ":", "{", "1">>),
    Str(<<"N", "0", "C", "A", "L", "L", " ", " ", " ", ":", "x", "{", "A",
          "B", "}", "C">>),
    Str(<<"N", "0", "C", "A", "L", "L", " ", " ", " ", ":", "a", "c", "k",
          "A", "B", "}", "C", "D">>),
    Str(<<"N", "0", "C", "A", "L", "L", " ", " ", " ", ":", "r", "e", "j",
          "A", "B", "}">>),
    Str(<<"N", "0", "C", "A", "L", "L", " ", " ", " ", ":", "r", "e", "j",
          "1">>),
    Str(<<"N", "0", "C", "A", "L", "L", " ", " ", " ", ":", "a", "c", "k",
          "1", "2", "3", "4", "5", "6">>),
    Str(<<"N", "0", "C", "A", "L", "L", " ", " ", " ", ":", "A", "C", "K",
          "1", "2">>),
    Str(<<"N", "0", "C", "A", "L", "L", " ", " ", " ", ":", "P", "A", "R",
          "M", ".", "A", "B", "C", "D", "E", "F", "G", "H", "I", "J", "K",
          "L", "M", "N", "O", "P", "Q", "R", "S", "T", "U">>),
    Str(<<"N", "0", "C", "A", "L", "L", " ", " ", " ", ":", "U", "N", "I",
          "T", ".", "A", ",", "A", "B", "C", "D", "E", "F", "G", "H", "I",
          "J", "K", "L", "M", "N", "O", "P", "Q", "R", "S", "T", "U">>),
    Str(<<"N", "0", "C", "A", "L", "L", " ", " ", " ", ":", "U", "N", "I",
          "T", ".", "A", "B", "C", "D", "E", "F", "G", "H", "I", "J", "K",
          "L", "M", "N", "O", "P", "Q", "R", "S", "T", ",", "V">>),
    Str(<<"N", "0", "C", "A", "L", "L", " ", " ", " ", ":", "P", "A", "R",
          "M", ".", ",", ",", ",", ",", ",", ",", ",", ",", ",", ",", ",",
          ",", ",", "A", "B", "C", "D", "E", "F", "G", "H", "I", "J", "K",
          "L", "M", "N", "O", "P", "Q", "R", "S", "T", "U">>),
    Str(<<"N", "0", "C", "A", "L", "L", " ", " ", " ", ":", "E", "Q", "N",
          "S", ".", "0", ",", "1", ".", "5", ",", "-", "2">>),
    Str(<<"N", "0", "C", "A", "L", "L", " ", " ", " ", ":", "E", "Q", "N",
          "S", ".", "1", ",", ",", "x", ",", "y">>),
    Str(<<"N", "0", "C", "A", "L", "L", " ", " ", " ", ":", "E", "Q", "N",
          "S", ".", "5", ".">>),
    Str(<<"N", "0", "C", "A", "L", "L", " ", " ", " ", ":", "B", "I", "T",
          "S", ".", "1", "0", "1", "0", "1", "0", "1", "0", ",", "T", "i",
          "t", "l", "e", " ">>),
    Str(<<"N", "0", "C", "A", "L", "L", " ", " ", " ", ":", "B", "I", "T",
          "S", ".", "1", "0", "1", ",", "T", "i", "t", "l", "e">>),
    Str(<<"N", "0", "C", "A", "L", "L", " ", " ", " ", ":", "P", "A", "R",
          "M", ".", "A", "{", "1", "2">>) }

\* positionless weather bodies
WeatherBodies ==
  {
    Str(<<"1", "0", "0", "9", "0", "5", "5", "6", "c", "2", "2", "0", "s",
          "0", "0", "4", "g", "0", "0", "5", "t", "0", "7", "7", "r", "0",
          "0", "0", "p", "0", "0", "0", "P", "0", "0", "0", "h", "5", "0",
          "b", "0", "9", "9", "0", "0">>),
    Str(<<"1", "0", "0", "9", "0", "5", "5", "6", "c", ".", ".", ".", "s",
          ".", ".", ".", "g", ".", ".", ".", "t", ".", ".", ".">>),
    Str(<<"1", "0", "0", "9", "0", "5", "5", "6", "c", " ", " ", " ", "s",
          " ", " ", " ", "g", " ", " ", " ", "t", " ", " ", " ", "x", "y",
          "z">>),
    Str(<<"1", "0", "0", "9", "0", "5", "5", "6", "c", ".", ".", ".", "s",
          ".", ".", ".", "g", ".", ".", ".", "t", ".", ".", ".", "h", "5",
          "0">>),
    Str(<<"1", "0", "0", "9", "0", "5", "5", "6", "c", ".", ".", ".", "s",
          ".", ".", ".", "g", ".", ".", ".", "t", ".", ".", ".", "h", ".",
          ".">>),
    Str(<<"1", "0", "0", "9", "0", "5", "5", "c", "2", "2", "0", "s", "0",
          "0", "4", "g", "0", "0", "5", "t", "0", "7", "7">>),
    Str(<<"c", "2", "2", "0", "s", "0", "0", "4", "g", "0", "0", "5", "t",
          "0", "7", "7">>),
    Str(<<"1", "0", "0", "9", "0", "5", "5", "6", "c", "2", "2", "0", "s",
          "0", "0", "4", "g", "0", "0", "5", "t", "0", "7", "7", "s", "0",
          "1", "0">>),
    Str(<<"a", "b", "c">>) }

\* position reports with the weather symbol and weather data
WxPositionBodies ==
  {<<33>> \o Str(<<"4", "9", "0", "3", ".", "5", "0", "N", "/", "0", "7",
                   "2", "0", "1", ".", "7", "5", "W", "_">>) \o w :
     w \in { Str(<<"g", "0", "0", "5", "t", "0", "7", "7", "s", "0", "1",
                   "0">>),
             Str(<<"2", "2", "0", "/", "0", "0", "4", "g", "0", "0", "5",
                   "s", "0", "1", "0">>),
             Str(<<"t", "0", "7", "7", "s", ".", "1", "2">>),
             Str(<<"t", "0", "7", "7", "S", "0", "0", "4", "s", "0", "1",
                   "0">>),
             Str(<<"t", ".", ".", ".", " ", "s", "n", "o", "w">>) }}

\* user-defined bodies
UserBodies ==
  {
    Str(<<"Q", "1", "d", "a", "t", "a">>),
    Str(<<"Q", "1">>),
    Str(<<"Q">>),
    Str(<<"Q", "Q">>) }

\* lines without a regular header and body
RawLines ==
  {
    Str(<<>>),
    Str(<<"n", "o", " ", "c", "o", "l", "o", "n">>),
    Str(<<"N", "0", "C", "A", "L", "L", ">", "A", "P", "R", "S">>),
    Str(<<":">>),
    Str(<<":", ":">>),
    Str(<<":", ">", "x">>),
    Str(<<"N", "0", "C", "A", "L", "L", ">", "A", "P", "R", "S", ":">>),
    Str(<<"N", "0", "C", "A", "L", "L", ":", ">", "x">>),
    Str(<<">", ":", ">", "x">>),
    Str(<<"N", "0", "C", "A", "L", "L", ">", ":", ">", "x">>),
    Str(<<"N", "0", "C", "A", "L", "L", ">", "A", "P", "R", "S", ":", ">">>),
    Str(<<"N", "0", "C", "A", "L", "L", ">", "A", "P", "R", "S", ":", ">",
          " ", "s", "t", "a", "t", "u", "s", " ">>),
    Str(<<"N", "0", "C", "A", "L", "L", ">", "A", "P", "R", "S", ":", ",",
          "j", "u", "n", "k">>),
    Str(<<"N", "0", "C", "A", "L", "L", ">", "A", "P", "R", "S", ":", "{">>),
    Str(<<"N", "0", "C", "A", "L", "L", ">", "A", "P", "R", "S", ",", ":",
          ">", "x">>) }

\* lines wrapped in third-party envelopes
InnerLines ==
  {
    Str(<<"N", "0", "C", "A", "L", "L", ">", "A", "P", "R", "S", ":", ">",
          "o", "k">>),
    Str(<<"N", "0", "C", "A", "L", "L", ">", "A", "P", "R", "S", ",", "W",
          "I", "D", "E", "1", "-", "1", ":", "!", "4", "9", "0", "3", ".",
          "5", "0", "N", "/", "0", "7", "2", "0", "1", ".", "7", "5", "W",
          "-">>),
    Str(<<"N", "0", "C", "A", "L", "L", ">", "A", "P", "R", "S", ":", ":",
          "N", "0", "C", "A", "L", "L", " ", " ", " ", ":", "h", "i">>),
    Str(<<"N", "0", "C", "A", "L", "L", ">", "A", "P", "R", "S", ":", ":",
          "x">>),
    Str(<<"x">>),
    Str(<<"N", "0", "C", "A", "L", "L", ">", "a", "p", "r", "s", ":", ">",
          "o", "k">>),
    Str(<<"N", "0", "C", "A", "L", "L", ">", "A", "P", "R", "S", ":", "{",
          "Q">>),
    Str(<<"N", "0", "C", "A", "L", "L", ">", "A", "P", "R", "S", ":", "!",
          "4", "9", "0", "3", ".", "5", "0", "N", "a", "0", "7", "2", "0",
          "1", ".", "7", "5", "W", "-">>),
    Str(<<"N", "0", "C", "A", "L", "L", ">", "S", "3", "2", "U", "6", "T",
          ":", "backquote", "a", "b", "c">>),
    Str(<<"N", "0", "C", "A", "L", "L", ">", "A", "P", "R", "S", ":", ";",
          "L", "E", "A", "D", "E", "R", " ", " ", " ", "x">>),
    Str(<<"N", "0", "C", "A", "L", "L", ">", "A", "P", "R", "S", ":", "#",
          "j", "u", "n", "k">>) }

\* the header of the body inputs
BodyHeader ==
  Str(<<"N", "0", "C", "A", "L", "L", ">", "A", "P", "R", "S", ",", "W", "I",
        "D", "E", "1", "-", "1", ":">>)

\* 'A', 'a', '1', '-', '!'
CallAlphabet == {65, 97, 49, 45, 33}

ShortCalls == UNION {[1..k -> CallAlphabet] : k \in 0..MaxCallLen}

PathSeqs == UNION {[1..k -> PathElems] : k \in 0..MaxPathElems}

\* the elements of a path, each after a comma
RECURSIVE JoinPath(_)
JoinPath(pa) ==
  IF pa = <<>> THEN <<>> ELSE <<44>> \o Head(pa) \o JoinPath(Tail(pa))

\* FROM>TO,PATH:BODY
Line(from, to, pa, body) ==
  from \o <<62>> \o to \o JoinPath(pa) \o <<58>> \o body

StatusBody == Str(<<">", "o", "k">>)

HeaderLines ==
  {Line(f, Str(<<"A", "P", "R", "S">>), <<>>, StatusBody) :
     f \in ShortCalls \cup NamedFrom}
  \cup {Line(Str(<<"N", "0", "C", "A", "L", "L">>), t, pa, StatusBody) :
          t \in ShortCalls \cup NamedTo, pa \in {<<>>, <<Str(<<"W", "-", "1">>)>>}}
  \cup {Line(Str(<<"N", "0", "C", "A", "L", "L">>), Str(<<"A", "P", "R", "S">>),
             pa, StatusBody) : pa \in PathSeqs}

\* the printable characters and the line feed as discriminators
Discriminators == {<<c>> : c \in 32..126} \cup {<<10>>}

DispatchBodies == {d \o r : d \in Discriminators, r \in Rests}

PositionBodies ==
  {d \o t \o c \o x :
     d \in {<<33>>, <<61>>, <<47>>, <<64>>}, t \in TimeStamps, c \in Coords,
     x \in Tails}
  \cup {<<59>> \o o \o t \o c :
          o \in ObjectHeads, t \in TimeStamps, c \in Coords}

FillBodies ==
  {d \o Repeat(97, k) \o x :
     d \in FillDiscriminators, k \in 0..MaxFill, x \in FillPayloads}

\* lines wrapped n times in a third-party envelope whose own header is valid
RECURSIVE Wrapped(_)
Wrapped(n) ==
  IF n = 0 THEN InnerLines
  ELSE {BodyHeader \o <<125>> \o l : l \in Wrapped(n - 1)}

\* Compressed position blocks that differ in their last three bytes only:
\* the c, s and compression type bytes read by parseCompressed.
CsTBodies ==
  {<<33>> \o Str(<<"/", "5", "L", "!", "!", "<", "*", "e", "7", ">">>) \o Str(<<c1, s1, t>>) :
     c1 \in {" ", "!", "7", "S", "z", "{", "|"},
     s1 \in {" ", "!", "]"},
     t \in {" ", "!", "1", "3", "9", "Q", "["}}

BodyLines ==
  {BodyHeader \o b :
     b \in DispatchBodies \cup PositionBodies \cup FillBodies \cup CsTBodies
           \cup WxPositionBodies
           \cup {<<58>> \o m : m \in MessageBodies}
           \cup {<<95>> \o w : w \in WeatherBodies}
           \cup {<<123>> \o u : u \in UserBodies}}
  \cup UNION {Wrapped(n) : n \in 1..MaxNest}
  \cup {Line(Str(<<"N", "0", "C", "A", "L", "L">>), t, <<>>, d \o b) :
          t \in MicEDsts, d \in {<<96>>, <<39>>}, b \in MicEBodies}
  \cup {l \o <<13, 10>> : l \in InnerLines}

Lines == RawLines \cup HeaderLines \cup BodyLines

(***************************************************************************)
(* Packet decoder: calls                                                   *)
(***************************************************************************)
Init ==
  /\ pc = "idle" /\ B91Idle /\ ParserIdle /\ PassIdle /\ CacheIdle /\ ExtIdle
  /\ utc \in Clocks

\* a caller hands one line to Parse
ParseLine ==
  /\ pc = "idle"
  /\ \E l \in Lines :
       /\ packet' = l
       /\ ret' = Parse(l, utc)
  /\ pc' = "parsed"
  /\ UNCHANGED <<b91vars, utc, othervars>>

\* the caller drops the result
ReturnParse ==
  /\ pc = "parsed"
  /\ pc' = "idle"
  /\ packet' = <<>>
  /\ ret' = NoRet
  /\ UNCHANGED <<b91vars, utc, othervars>>

Next == ParseLine \/ ReturnParse

Spec == Init /\ [][Next]_vars

(***************************************************************************)
(* Passcode: calls                                                         *)
(***************************************************************************)
InitPasscode ==
  /\ pc = "idle" /\ B91Idle /\ ParserIdle /\ PassIdle /\ CacheIdle /\ ExtIdle
  /\ utc = [year |-> 2026, month |-> 11, day |-> 4]

\* a caller asks for the passcode of a callsign
CallPasscode ==
  /\ pc = "idle"
  /\ \E c \in Callsigns :
       /\ callsignArg' = c
       /\ passcode' = Passcode(c)
  /\ pc' = "passcode"
  /\ UNCHANGED <<b91vars, parservars, cachevars, extvars>>

\* the caller drops the result
ReturnPasscode ==
  /\ pc = "passcode"
  /\ pc' = "idle"
  /\ callsignArg' = <<>>
  /\ passcode' = 0
  /\ UNCHANGED <<b91vars, parservars, cachevars, extvars>>

NextPasscode == CallPasscode \/ ReturnPasscode

SpecPasscode == InitPasscode /\ [][NextPasscode]_vars

(***************************************************************************)
(* The cache of compiled patterns: goroutines calling Get                  *)
(***************************************************************************)
InitCache ==
  /\ pc = "idle" /\ B91Idle /\ ParserIdle /\ PassIdle /\ CacheIdle /\ ExtIdle
  /\ utc = [year |-> 2026, month |-> 11, day |-> 4]

\* goroutine g calls Get(expr)
GetCall(g) ==
  /\ getters[g].pc = "idle"
  /\ gets < MaxGets
  /\ \E e \in Patterns :
       getters' = [getters EXCEPT ![g] = [pc |-> "lock", expr |-> e,
                                         re |-> NoRegexp]]
  /\ gets' = gets + 1
  /\ UNCHANGED <<CompiledRegexps, compiles, returned>>

\* c.l.Lock()
GetLock(g) ==
  /\ getters[g].pc = "lock"
  /\ CanLock(CompiledRegexps.l)
  /\ CompiledRegexps' = [CompiledRegexps EXCEPT !.l = g]
  /\ getters' = [getters EXCEPT ![g].pc = "lookup"]
  /\ UNCHANGED <<compiles, returned, gets>>

\* if re, ok := c.r[expr]; ok { return re }
GetLookup(g) ==
  /\ getters[g].pc = "lookup"
  /\ LET re == CompiledRegexps.r[getters[g].expr]
     IN  getters' = IF re # NoRegexp
                    THEN [getters EXCEPT ![g].pc = "unlock", ![g].re = re]
                    ELSE [getters EXCEPT ![g].pc = "compile"]
  /\ UNCHANGED <<CompiledRegexps, compiles, returned, gets>>

\* c.r[expr] = regexp.MustCompile(expr); return c.r[expr]: MustCompile
\* allocates a new instance each time it runs
GetCompile(g) ==
  /\ getters[g].pc = "compile"
  /\ LET e == getters[g].expr
         fresh == <<e, compiles[e] + 1>>
     IN  /\ compiles' = [compiles EXCEPT ![e] = @ + 1]
         /\ CompiledRegexps' = [CompiledRegexps EXCEPT !.r[e] = fresh]
         /\ getters' = [getters EXCEPT ![g].pc = "unlock", ![g].re = fresh]
  /\ UNCHANGED <<returned, gets>>

\* defer c.l.Unlock() and the return to the caller
GetReturn(g) ==
  /\ getters[g].pc = "unlock"
  /\ CompiledRegexps' = [CompiledRegexps EXCEPT !.l = 0]
  /\ returned' = [returned EXCEPT ![getters[g].expr] = @ \cup {getters[g].re}]
  /\ getters' = [getters EXCEPT ![g].pc = "idle"]
  /\ UNCHANGED <<compiles, gets>>

Get(g) ==
  /\ GetCall(g) \/ GetLock(g) \/ GetLookup(g) \/ GetCompile(g) \/ GetReturn(g)
  /\ UNCHANGED <<pc, b91vars, parservars, passvars, extvars>>

NextCache == \E g \in Goroutines : Get(g)

SpecCache == InitCache /\ [][NextCache]_vars


(***************************************************************************)
(* QConstruct: calls                                                       *)
(***************************************************************************)
InitQ ==
  /\ pc = "idle" /\ B91Idle /\ ParserIdle /\ PassIdle /\ CacheIdle /\ ExtIdle
  /\ utc = [year |-> 2026, month |-> 11, day |-> 4]

\* a server hands a decoded packet and the configuration of the connection
\* it came from to QConstruct
CallQConstruct ==
  /\ pc = "idle"
  /\ \E pa \in QPaths, n \in 0..MaxSpare, from \in QFroms, c \in QConfigs :
       /\ qHeap' = <<Backing(pa, n)>>
       /\ qPacket' = [From |-> from, Path |-> [arr |-> 1, len |-> Len(pa)]]
       /\ qConfig' = c
       /\ qResult' = QConstruct(<<Backing(pa, n)>>,
                                [From |-> from,
                                 Path |-> [arr |-> 1, len |-> Len(pa)]], c)
  /\ pc' = "qconstruct"
  /\ UNCHANGED <<b91vars, parservars, passvars, cachevars, replvars, clientvars>>

\* the caller drops the result
ReturnQConstruct ==
  /\ pc = "qconstruct"
  /\ pc' = "idle"
  /\ qHeap' = <<>>
  /\ qPacket' = [From |-> <<>>, Path |-> [arr |-> 0, len |-> 0]]
  /\ qConfig' = NoQConfig
  /\ qResult' = NoQResult
  /\ UNCHANGED <<b91vars, parservars, passvars, cachevars, replvars, clientvars>>

\* the packets handed to Replace: every text of at most MaxPacketLen
\* characters over a letter, > and :, and packets whose path text occurs
\* in the sender or in the body
ReplacePackets ==
  UNION {[1..k -> {97, 62, 58}] : k \in 0..MaxPacketLen}
  \cup { Str(<<"N", "0", "C", "A", "L", "L", ">", "A", "P", "R", "S", ",",
               "W", "I", "D", "E", "1", "-", "1", ":", ">", "o", "k">>),
         Str(<<"N", "0", "C", "A", "L", "L", ">", "A", "P", "R", "S", ":",
               "t", "o", " ", "A", "P", "R", "S">>),
         Str(<<"A", "P", "R", "S", ">", "A", "P", "R", "S", ":", "x">>),
         Str(<<"N", "0", "C", "A", "L", "L", ">", ":", "o", "k">>) }

ReplaceToCalls == { Str(<<"A", "P", "R", "S">>), Str(<<"a">>) }

ReplaceNewPaths ==
  { <<>>, <<Str(<<"q", "A", "C">>), Str(<<"T", "2">>)>> }

\* a server rewrites the path of a packet it forwards
CallReplace ==
  /\ pc = "idle"
  /\ \E pkt \in ReplacePackets, toCall \in ReplaceToCalls,
        newPath \in ReplaceNewPaths :
       /\ rPacket' = pkt
       /\ rToCall' = toCall
       /\ rNewPath' = newPath
       /\ rReturn' = Replace(pkt, toCall, newPath)
  /\ pc' = "replace"
  /\ UNCHANGED <<b91vars, parservars, passvars, cachevars, qvars, clientvars>>

\* the caller drops the result
ReturnReplace ==
  /\ pc = "replace"
  /\ pc' = "idle"
  /\ rPacket' = <<>> /\ rToCall' = <<>> /\ rNewPath' = <<>>
  /\ rReturn' = [str |-> <<>>, err |-> NoErr]
  /\ UNCHANGED <<b91vars, parservars, passvars, cachevars, qvars, clientvars>>

NextQ == CallQConstruct \/ ReturnQConstruct \/ CallReplace \/ ReturnReplace

SpecQ == InitQ /\ [][NextQ]_vars

(***************************************************************************)
(* Client: Connect, receivePackets, heartBeat, updateStats, Close          *)
(***************************************************************************)
\* The statistics and the goroutines that only update them
\* (updateSentBytesStats and the like) are outside this model, and so is
\* the text of the lines read.  A goroutine is a record: kind, pc (its
\* place in the code), reader (the connection its bufio.Reader wraps), i
\* (the loop variable of the reconnect loop), res (what Connect returned to
\* it last; the caller drops it), calls (how many calls the caller has
\* made), and three records of what it did: use
\* (the last SetReadDeadline or ReadString of the receive loop, with the
\* value of the field conn and whether the connection used was open at that
\* moment), attempts (its calls of Connect in the reconnect loop) and won
\* (one of them returned nil).
NoUse == [op |-> "none", field |-> 0, wasOpen |-> FALSE]

NewTask(kind, at) ==
  [kind |-> kind, pc |-> at, reader |-> 0, i |-> 0, res |-> NoErr,
   calls |-> 0, use |-> NoUse, attempts |-> 0, won |-> FALSE]

\* go f(): the goroutines started are added to ts
Go(ts, kinds) ==
  ts \o [k \in 1..Len(kinds) |->
           NewTask(kinds[k], IF kinds[k] = "receivePackets" THEN "start"
                             ELSE IF kinds[k] = "heartBeat" THEN "wait"
                             ELSE "run")]

\* a goroutine that returned: its local variables and records are gone
Returned(t) == NewTask(t.kind, "exit")

\* where a goroutine goes on when Connect returns to it
Return(t, err) ==
  [t EXCEPT !.res = IF t.kind = "caller" THEN NoErr ELSE err,
            !.pc = IF t.kind = "caller" THEN "idle" ELSE "retried",
            !.won = (t.kind = "receivePackets" /\ err = NoErr) \/ t.won]

\* NewClient(..., WithRetryTimes(n)): the client and its caller
InitClient ==
  /\ pc = "idle" /\ B91Idle /\ ParserIdle /\ PassIdle /\ CacheIdle
  /\ QIdle /\ ReplIdle
  /\ utc = [year |-> 2026, month |-> 11, day |-> 4]
  /\ conn = 0 /\ closed = FALSE /\ done = FALSE /\ up = FALSE /\ mu = 0
  /\ retryTimes \in 0..MaxRetryTimes
  /\ open = {} /\ connects = 0 /\ crashed = FALSE
  /\ tasks = <<NewTask("caller", "idle")>>

nonclientvars ==
  <<pc, b91vars, parservars, passvars, cachevars, qvars, replvars>>

\* every connection made starts three goroutines
TaskIds == 1..(3 * MaxDials + 1)

\* goroutine g was started, and no goroutine has panicked: a panic ends the
\* process
Runs(g) == g \in DOMAIN tasks /\ ~crashed

\* how many connections net.Dial has made: each started one updateStats
Dialed ==
  Cardinality({k \in DOMAIN tasks : tasks[k].kind = "updateStats"})

\* the caller calls c.Connect()
CallConnect(g) ==
  /\ Runs(g)
  /\ tasks[g].kind = "caller" /\ tasks[g].pc = "idle"
  /\ tasks[g].calls < MaxCalls
  /\ tasks' = [tasks EXCEPT ![g].pc = "connect", ![g].calls = @ + 1]
  /\ UNCHANGED <<conn, closed, done, up, mu, retryTimes, open, connects,
                 crashed, nonclientvars>>

\* the caller calls c.Close()
CallClose(g) ==
  /\ Runs(g)
  /\ tasks[g].kind = "caller" /\ tasks[g].pc = "idle"
  /\ tasks[g].calls < MaxCalls
  /\ tasks' = [tasks EXCEPT ![g].pc = "close", ![g].calls = @ + 1]
  /\ UNCHANGED <<conn, closed, done, up, mu, retryTimes, open, connects,
                 crashed, nonclientvars>>

\* ConnectLock without the test of c.closed
ConnectLockUnchecked(g) ==
  /\ Runs(g)
  /\ tasks[g].pc = "connect" /\ mu = 0
  /\ mu' = g /\ tasks' = [tasks EXCEPT ![g].pc = "dial"]
  /\ UNCHANGED <<conn, closed, done, up, retryTimes, open, connects, crashed,
                 nonclientvars>>

\* Connect: c.mu.Lock() and the test of c.closed; the deferred Unlock runs
\* when Connect returns
ConnectLock(g) ==
  /\ Runs(g)
  /\ tasks[g].pc = "connect" /\ mu = 0
  /\ IF closed
     THEN /\ tasks' = [tasks EXCEPT ![g] = Return(@, "client is closed")]
          /\ mu' = 0
     ELSE /\ tasks' = [tasks EXCEPT ![g].pc = "dial"]
          /\ mu' = g
  /\ UNCHANGED <<conn, closed, done, up, retryTimes, open, connects, crashed,
                 nonclientvars>>

\* Connect: net.Dial, which the network lets succeed or fail, and on success
\* up, conn and go c.updateStats()
ConnectDial(g) ==
  /\ Runs(g)
  /\ tasks[g].pc = "dial"
  /\ \E ok \in IF Dialed < MaxDials THEN BOOLEAN ELSE {FALSE} :
       IF ok
       THEN /\ up' = TRUE
            /\ conn' = Dialed + 1
            /\ open' = open \cup {Dialed + 1}
            /\ tasks' = Go([tasks EXCEPT ![g].pc = "login"], <<"updateStats">>)
            /\ mu' = mu
       ELSE /\ tasks' = [tasks EXCEPT ![g] = Return(@, "dial error")]
            /\ mu' = 0
            /\ UNCHANGED <<up, conn, open>>
  /\ UNCHANGED <<closed, done, retryTimes, connects, crashed, nonclientvars>>

\* login: c.conn.Write, which succeeds or fails, and on success
\* go c.receivePackets() and go c.heartBeat(); Connect returns what login
\* returns
ConnectLogin(g) ==
  /\ Runs(g)
  /\ tasks[g].pc = "login"
  /\ \E ok \in BOOLEAN :
       IF ok
       THEN /\ tasks' = Go([tasks EXCEPT ![g] = Return(@, NoErr)],
                           <<"receivePackets", "heartBeat">>)
            /\ connects' = connects + 1
       ELSE /\ tasks' = [tasks EXCEPT ![g] = Return(@, "write error")]
            /\ connects' = connects
  /\ mu' = 0
  /\ UNCHANGED <<conn, closed, done, up, retryTimes, open, crashed,
                 nonclientvars>>

\* receivePackets: reader := bufio.NewReaderSize(c.conn, c.bufSize)
ReceiveStart(g) ==
  /\ Runs(g)
  /\ tasks[g].pc = "start"
  /\ tasks' = [tasks EXCEPT ![g].reader = conn, ![g].pc = "select"]
  /\ UNCHANGED <<conn, closed, done, up, mu, retryTimes, open, connects,
                 crashed, nonclientvars>>

\* receivePackets: select { case <-c.done: return; default: ... }
ReceiveSelect(g) ==
  /\ Runs(g)
  /\ tasks[g].pc = "select"
  /\ tasks' = [tasks EXCEPT ![g] = IF done THEN Returned(@)
                                   ELSE [@ EXCEPT !.pc = "deadline",
                                                  !.use = NoUse]]
  /\ UNCHANGED <<conn, closed, done, up, mu, retryTimes, open, connects,
                 crashed, nonclientvars>>

\* receivePackets: c.conn.SetReadDeadline(...): the field is read without
\* the mutex, so the read sees the value before or after a write that races
\* with it; a nil field is a nil pointer dereference, a closed connection
\* gives an error and ends the loop
ReceiveSetReadDeadline(g) ==
  /\ Runs(g)
  /\ tasks[g].pc = "deadline"
  /\ tasks' = [tasks EXCEPT
                 ![g].use = [op |-> "SetReadDeadline", field |-> conn,
                             wasOpen |-> conn \in open],
                 ![g].pc = IF conn = 0 THEN "panic"
                           ELSE IF conn \notin open THEN "ended"
                           ELSE "read"]
  /\ crashed' = (conn = 0)
  /\ UNCHANGED <<conn, closed, done, up, mu, retryTimes, open, connects,
                 nonclientvars>>

\* receivePackets: reader.ReadString('\n') reads from the connection the
\* reader wraps: a line or a timeout goes round the loop, an error ends it;
\* a closed connection gives an error, a reader made of the nil field panics
ReceiveReadString(g) ==
  /\ Runs(g)
  /\ tasks[g].pc = "read"
  /\ \E outcome \in IF tasks[g].reader = 0 THEN {"panic"}
                    ELSE IF tasks[g].reader \notin open THEN {"error"}
                    ELSE {"line", "timeout", "error"} :
       /\ tasks' = [tasks EXCEPT
                      ![g].use = [op |-> "ReadString", field |-> conn,
                                  wasOpen |-> tasks[g].reader \in open],
                      ![g].pc = IF outcome = "panic" THEN "panic"
                                ELSE IF outcome = "error" THEN "ended"
                                ELSE "select"]
       /\ crashed' = (outcome = "panic")
  /\ UNCHANGED <<conn, closed, done, up, mu, retryTimes, open, connects,
                 nonclientvars>>

\* receivePackets after the loop: c.up = false, and return when done is
\* closed
ReceiveEnded(g) ==
  /\ Runs(g)
  /\ tasks[g].pc = "ended"
  /\ up' = FALSE
  /\ tasks' = [tasks EXCEPT ![g] = IF done THEN Returned(@)
                                   ELSE [@ EXCEPT !.pc = "retry", !.i = 0,
                                                  !.use = NoUse]]
  /\ UNCHANGED <<conn, closed, done, mu, retryTimes, open, connects, crashed,
                 nonclientvars>>

\* the reconnect loop: for i := 0; i < c.retryTimes; i++, the test of done
\* and the call of c.Connect()
ReceiveRetry(g) ==
  /\ Runs(g)
  /\ tasks[g].pc = "retry"
  /\ tasks' = [tasks EXCEPT
                 ![g] = IF tasks[g].i >= retryTimes \/ done THEN Returned(@)
                        ELSE [@ EXCEPT !.pc = "connect",
                                       !.attempts = @ + 1]]
  /\ UNCHANGED <<conn, closed, done, up, mu, retryTimes, open, connects,
                 crashed, nonclientvars>>

\* the reconnect loop after Connect returned: continue on an error, return
\* on nil
ReceiveRetried(g) ==
  /\ Runs(g)
  /\ tasks[g].pc = "retried"
  /\ tasks' = [tasks EXCEPT
                 ![g] = IF tasks[g].res # NoErr
                        THEN [@ EXCEPT !.pc = "retry", !.i = @ + 1]
                        ELSE Returned(@)]
  /\ UNCHANGED <<conn, closed, done, up, mu, retryTimes, open, connects,
                 crashed, nonclientvars>>

\* heartBeat: case <-c.done
HeartBeatDone(g) ==
  /\ Runs(g)
  /\ tasks[g].kind = "heartBeat" /\ tasks[g].pc = "wait" /\ done
  /\ tasks' = [tasks EXCEPT ![g].pc = "exit"]
  /\ UNCHANGED <<conn, closed, done, up, mu, retryTimes, open, connects,
                 crashed, nonclientvars>>

\* heartBeat: case <-ticker.C and the test of the connection under the
\* mutex
HeartBeatTick(g) ==
  /\ Runs(g)
  /\ tasks[g].kind = "heartBeat" /\ tasks[g].pc = "wait" /\ mu = 0
  /\ tasks' = [tasks EXCEPT ![g].pc = IF conn = 0 \/ closed THEN "exit"
                                      ELSE "send"]
  /\ UNCHANGED <<conn, closed, done, up, mu, retryTimes, open, connects,
                 crashed, nonclientvars>>

\* heartBeat: c.SendPacket(ping), under the mutex: an error when the client
\* is closed or not connected or when the write fails
HeartBeatSend(g) ==
  /\ Runs(g)
  /\ tasks[g].pc = "send" /\ mu = 0
  /\ \E ok \in IF conn = 0 \/ closed THEN {FALSE} ELSE BOOLEAN :
       tasks' = [tasks EXCEPT ![g].pc = IF ok THEN "wait" ELSE "failed"]
  /\ UNCHANGED <<conn, closed, done, up, mu, retryTimes, open, connects,
                 crashed, nonclientvars>>

\* heartBeat after a failed ping: close the connection under the mutex
HeartBeatClose(g) ==
  /\ Runs(g)
  /\ tasks[g].pc = "failed" /\ mu = 0
  /\ IF conn # 0
     THEN open' = open \ {conn} /\ conn' = 0 /\ up' = FALSE
     ELSE UNCHANGED <<open, conn, up>>
  /\ tasks' = [tasks EXCEPT ![g].pc = "exit"]
  /\ UNCHANGED <<closed, done, mu, retryTimes, connects, crashed,
                 nonclientvars>>

\* updateStats: case <-c.done
StatsDone(g) ==
  /\ Runs(g)
  /\ tasks[g].kind = "updateStats" /\ tasks[g].pc = "run" /\ done
  /\ tasks' = [tasks EXCEPT ![g].pc = "exit"]
  /\ UNCHANGED <<conn, closed, done, up, mu, retryTimes, open, connects,
                 crashed, nonclientvars>>

\* Close: c.mu.Lock(), the test of c.closed, c.closed = true, close(c.done)
CloseLock(g) ==
  /\ Runs(g)
  /\ tasks[g].pc = "close" /\ mu = 0
  /\ IF closed
     THEN /\ tasks' = [tasks EXCEPT ![g].pc = "idle"]
          /\ UNCHANGED <<mu, closed, done>>
     ELSE /\ tasks' = [tasks EXCEPT ![g].pc = "closing"]
          /\ mu' = g /\ closed' = TRUE /\ done' = TRUE
  /\ UNCHANGED <<conn, up, retryTimes, open, connects, crashed,
                 nonclientvars>>

\* Close: c.conn.Close() when c.conn != nil
CloseConn(g) ==
  /\ Runs(g)
  /\ tasks[g].pc = "closing"
  /\ IF conn # 0
     THEN /\ open' = open \ {conn}
          /\ tasks' = [tasks EXCEPT ![g].pc = "unset"]
          /\ mu' = mu
     ELSE /\ open' = open
          /\ tasks' = [tasks EXCEPT ![g].pc = "idle"]
          /\ mu' = 0
  /\ UNCHANGED <<conn, closed, done, up, retryTimes, connects, crashed,
                 nonclientvars>>

\* Close: c.conn = nil and the deferred Unlock
CloseUnset(g) ==
  /\ Runs(g)
  /\ tasks[g].pc = "unset"
  /\ conn' = 0 /\ mu' = 0
  /\ tasks' = [tasks EXCEPT ![g].pc = "idle"]
  /\ UNCHANGED <<closed, done, up, retryTimes, open, connects, crashed,
                 nonclientvars>>

NextClient ==
  \E g \in TaskIds :
    \/ CallConnect(g)
    \/ CallClose(g)
    \/ ConnectLock(g)
    \/ ConnectDial(g)
    \/ ConnectLogin(g)
    \/ ReceiveStart(g)
    \/ ReceiveSelect(g)
    \/ ReceiveSetReadDeadline(g)
    \/ ReceiveReadString(g)
    \/ ReceiveEnded(g)
    \/ ReceiveRetry(g)
    \/ ReceiveRetried(g)
    \/ HeartBeatDone(g)
    \/ HeartBeatTick(g)
    \/ HeartBeatSend(g)
    \/ HeartBeatClose(g)
    \/ StatsDone(g)
    \/ CloseLock(g)
    \/ CloseConn(g)
    \/ CloseUnset(g)

SpecClient == InitClient /\ [][NextClient]_vars

(***************************************************************************)
(* Properties of the packet decoder                                        *)
(***************************************************************************)
\* the offset of the first byte c of s (1-based), 0 when there is none
FirstAt(s, c) ==
  IF \E i \in 1..Len(s) : s[i] = c
  THEN CHOOSE i \in 1..Len(s) : s[i] = c /\ \A j \in 1..(i - 1) : s[j] # c
  ELSE 0

\* the line without its line ends, its header and its body
LineText == Trim(packet, {13, 10})
LineHead == SubSeq(LineText, 1, FirstAt(LineText, 58) - 1)
LineBody == SubSeq(LineText, FirstAt(LineText, 58) + 1, Len(LineText))

\* the line has a header with a '>' and a body
WellSplit ==
  /\ FirstAt(LineText, 58) > 1
  /\ Len(LineBody) > 0
  /\ FirstAt(LineHead, 62) > 0

\* the sender, and the comma-separated elements after it
LineFrom == SubSeq(LineHead, 1, FirstAt(LineHead, 62) - 1)
LineElems == Split(SubSeq(LineHead, FirstAt(LineHead, 62) + 1, Len(LineHead)), 44)
LineTo == LineElems[1]

\* Parse returned an error of the header decoder of this line
HeaderErrors ==
  {"invalid packet header", "fromCallsign is invalid",
   "no toCallsign in header", "invalid toCallsign in header",
   "invalid callsign in path"}
HeaderFailed ==
  ret.st = "error" /\ ret.decoder = "none" /\ ret.err \in HeaderErrors

\* the line has the header N0CALL>APRS,WIDE1-1 and a body of a
\* discriminator and at least one more character
HasBodyHeader ==
  /\ Len(packet) > Len(BodyHeader) + 1
  /\ SubSeq(packet, 1, Len(BodyHeader)) = BodyHeader
  /\ packet = LineText
LineDiscriminator == packet[Len(BodyHeader) + 1]
LineRest == SubSeq(packet, Len(BodyHeader) + 2, Len(packet))

\* C1: when Parse returns an error, the record returned with it has raw
\* equal to the input line and every other field at its zero value.
C1_ErrorKeepsOnlyRaw ==
  (pc = "parsed" /\ ret.st = "error") =>
    ret.p = [ZeroParsed EXCEPT !.Raw = packet]

\* C2: for every input line Parse returns a record or an error; it never
\* aborts.
C2_NeverAborts == pc = "parsed" => ret.st \in {"ok", "error"}

\* the fourteen format tags
FormatTags ==
  {"uncompressed", "compressed", "mic-e", "object", "item", "status",
   "message", "bulletin", "group-bulletin", "announcement",
   "telemetry-message", "thirdparty", "user-defined", "invalid"}

\* C5: every successful Parse returns a record whose format is one of the
\* fourteen tags, never empty.
C5_FormatIsATag == (pc = "parsed" /\ ret.st = "ok") => ret.p.Format \in FormatTags

\* the discriminators listed as unsupported: # $ % & ( ) * + - . < ? T [ \ ] ^
UnsupportedChars ==
  {35, 36, 37, 38, 40, 41, 42, 43, 45, 46, 60, 63, 84, 91, 92, 93, 94}

\* C6: a body whose discriminator is one of the unsupported characters is
\* rejected with the UnsupportedFormat error and no sub-decoder is selected.
C6_UnsupportedRejected ==
  (pc = "parsed" /\ HasBodyHeader /\ LineDiscriminator \in UnsupportedChars) =>
    /\ ret.st = "error"
    /\ ret.err = "packet type is unsupported"
    /\ ret.decoder = "none"

\* the discriminators of the dispatch table: } , { > ` ' : _ ! = / @ ;
TableChars == {125, 44, 123, 62, 96, 39, 58, 95, 33, 61, 47, 64, 59}

\* C7: for a discriminator outside the dispatch table, the body goes to the
\* position decoder exactly when a '!' is among the first 40 characters
\* after the discriminator, and decoding starts after the first '!';
\* otherwise Parse succeeds with format invalid and the body undecoded.
C7_BangFallback ==
  (pc = "parsed" /\ HasBodyHeader /\ LineDiscriminator \notin TableChars) =>
    LET bang == FirstAt(LineRest, 33)
    IN  IF bang >= 1 /\ bang <= 40
        THEN /\ ret.decoder = "position"
             /\ ret.start = SubSeq(LineRest, bang + 1, Len(LineRest))
        ELSE /\ ret.decoder = "invalid"
             /\ ret.st = "ok"
             /\ ret.p.Format = "invalid"
             /\ ret.p.Body = LineRest

\* the '!' is the 40th character after the discriminator 'x', and the
\* position after it is decoded
C7_Witness ==
  /\ pc = "parsed"
  /\ packet = BodyHeader \o <<120>> \o Repeat(97, 39) \o <<33>> \o PosOK
  /\ ret.decoder = "position"
  /\ ret.start = PosOK
  /\ ret.st = "ok"
  /\ ret.p.Format = "uncompressed"

\* ^[A-Za-z0-9]{1,9}(-[A-Za-z0-9]{1,8})?$ and at most 9 characters
SenderGrammar(f) ==
  /\ Len(f) <= 9
  /\ \E k \in 1..9 :
       /\ k <= Len(f)
       /\ \A i \in 1..k : IsAlnum(f[i])
       /\ k < Len(f) =>
            /\ f[k + 1] = 45
            /\ Len(f) - (k + 1) \in 1..8
            /\ \A i \in (k + 2)..Len(f) : IsAlnum(f[i])

\* C8: the header decoder accepts a sender exactly when it is at most 9
\* characters long and matches ^[A-Za-z0-9]{1,9}(-[A-Za-z0-9]{1,8})?$; any
\* other sender gives an InvalidHeader error.
C8_SenderGrammar ==
  (pc = "parsed" /\ WellSplit) =>
    ((HeaderFailed /\ ret.err = "fromCallsign is invalid")
       <=> ~SenderGrammar(LineFrom))

\* ^[X0-9]{1,6}(-\d{1,2})?$ where X is the class of letters given
DestinationGrammar(t, Letter(_)) ==
  \E k \in 1..6 :
    /\ k <= Len(t)
    /\ \A i \in 1..k : Letter(t[i]) \/ IsDigit(t[i])
    /\ k < Len(t) =>
         /\ t[k + 1] = 45
         /\ Len(t) - (k + 1) \in 1..2
         /\ \A i \in (k + 2)..Len(t) : IsDigit(t[i])

IsLetter(c) == IsUpper(c) \/ IsLower(c)

\* the header decoder rejected the destination of the line
DestinationRejected ==
  /\ HeaderFailed
  /\ ret.err \in {"no toCallsign in header", "invalid toCallsign in header"}

\* the header decoder came to test the destination
DestinationTested ==
  pc = "parsed" /\ WellSplit
    /\ ~(HeaderFailed /\ ret.err = "fromCallsign is invalid")

\* C9 as stated: the destination is accepted exactly when it matches
\* ^[A-Za-z0-9]{1,6}(-\d{1,2})?$, letters of either case.
C9_DestinationAnyCase ==
  DestinationTested =>
    (DestinationRejected <=> ~DestinationGrammar(LineTo, IsLetter))

\* C9 amended: the destination is accepted exactly when it matches
\* ^[A-Z0-9]{1,6}(-\d{1,2})?$, upper-case letters only; N0CALL and
\* N0CALL-10 are accepted, TOOLONGCALL-99, the empty string and AB! are not.
C9_DestinationUpperCase ==
  DestinationTested =>
    /\ DestinationRejected <=> ~DestinationGrammar(LineTo, IsUpper)
    /\ LineTo \in {Str(<<"N", "0", "C", "A", "L", "L">>),
                   Str(<<"N", "0", "C", "A", "L", "L", "-", "1", "0">>)}
         => ~DestinationRejected
    /\ LineTo \in {Str(<<"T", "O", "O", "L", "O", "N", "G", "C", "A", "L", "L", "-", "9", "9">>),
                   <<>>, Str(<<"A", "B", "!">>)}
         => DestinationRejected

\* the lower-case destination n0call is rejected
C9_Witness ==
  /\ pc = "parsed"
  /\ packet = Line(Str(<<"N", "0", "C", "A", "L", "L">>),
                   Str(<<"n", "0", "c", "a", "l", "l">>), <<>>, StatusBody)
  /\ ret.st = "error"
  /\ ret.err = "invalid toCallsign in header"
  /\ ret.p.To = <<>>

\* ^[A-Za-z0-9\-]{1,9}\*?$
PathElementGrammar(e) ==
  LET n == IF Len(e) > 0 /\ e[Len(e)] = 42 THEN Len(e) - 1 ELSE Len(e)
  IN  /\ n \in 1..9
      /\ \A i \in 1..n : IsAlnum(e[i]) \/ e[i] = 45

\* an element without a character that is not white space
Blank(e) == \A i \in 1..Len(e) : e[i] \in {9, 10, 11, 12, 13, 32}
NotBlank(e) == ~Blank(e)

\* the header decoder failed before it came to the path elements
FailedBeforePath ==
  /\ HeaderFailed
  /\ ret.err \in {"fromCallsign is invalid", "no toCallsign in header",
                  "invalid toCallsign in header"}

\* C10: after a successful header decode, path is the sequence of the
\* non-blank elements after the destination, in order and with duplicates;
\* blank elements cause no error, and a non-blank element that fails
\* ^[A-Za-z0-9\-]{1,9}\*?$ makes the header fail with from, to and path unset.
C10_PathElements ==
  (pc = "parsed" /\ WellSplit /\ ~FailedBeforePath) =>
    LET elems == Tail(LineElems)
        bad == \E i \in 1..Len(elems) :
                 NotBlank(elems[i]) /\ ~PathElementGrammar(elems[i])
    IN  IF bad
        THEN /\ HeaderFailed
             /\ ret.err = "invalid callsign in path"
             /\ ret.p.From = <<>> /\ ret.p.To = <<>> /\ ret.p.Path = <<>>
        ELSE /\ ~HeaderFailed
             /\ ret.st \in {"ok", "error"} =>
                  /\ ret.p.Path = SelectSeq(elems, NotBlank)
                  /\ ret.p.From = LineFrom
                  /\ ret.p.To = LineTo

\* N0CALL>APRS,,W-1,W-1: a blank element is dropped, a duplicate is kept
C10_Witness ==
  /\ pc = "parsed"
  /\ packet = Line(Str(<<"N", "0", "C", "A", "L", "L">>), Str(<<"A", "P", "R", "S">>),
                   <<<<>>, Str(<<"W", "-", "1">>), Str(<<"W", "-", "1">>)>>,
                   StatusBody)
  /\ ret.st = "ok"
  /\ ret.p.Path = <<Str(<<"W", "-", "1">>), Str(<<"W", "-", "1">>)>>

\* the record as parseHeader leaves it for the line
HeaderRecord ==
  [ZeroParsed EXCEPT !.Raw = packet, !.From = LineFrom, !.To = LineTo,
                     !.Path = Tail(LineElems)]

\* the line has the header N0CALL>APRS,WIDE1-1 and a body ! or = that is
\* followed at once by the coordinates
PlainPosition == HasBodyHeader /\ LineDiscriminator \in {33, 61}

\* C11: a coordinate body that the uncompressed decoder does not match is
\* decoded as a compressed position, and a position decode that succeeds
\* has format uncompressed or compressed and a symbol table and code.
C11_TriedAsCompressed ==
  (pc = "parsed" /\ PlainPosition) =>
    /\ ~NormalRe(LineRest) =>
         LET c == PositionComment(
                    parseCompressed(
                      [HeaderRecord EXCEPT !.MessageCapable =
                                             (LineDiscriminator = 61)],
                      LineRest),
                    <<LineDiscriminator>>)
         IN  /\ ret.st = c.st
             /\ ret.err = c.err
             /\ ret.st # "panic" => ret.p = c.p
    /\ ret.st = "ok" =>
         /\ ret.p.Format \in {"uncompressed", "compressed"}
         /\ Len(ret.p.Symbol) = 2

\* the number of blanks in the five characters of s from offset i
Blanks(s, i) == Cardinality({k \in i..(i + 4) : s[k] = 32})

\* C12: an uncompressed position whose latitude minutes and longitude
\* minutes hold different numbers of blanks fails with the ambiguity
\* mismatch error; when the numbers are equal, posAmbiguity is that number
\* and lies in 0..4.
C12_Ambiguity ==
  (pc = "parsed" /\ PlainPosition /\ NormalRe(LineRest)) =>
    IF Blanks(LineRest, 3) # Blanks(LineRest, 13)
    THEN /\ ret.st = "error"
         /\ ret.err = "latitude and longitude ambiguity mismatch"
    ELSE /\ Blanks(LineRest, 3) \in 0..4
         /\ ret.err # "latitude and longitude ambiguity mismatch"
         /\ ret.st \in {"ok", "error"} =>
              ret.p.PosAmbiguity = Blanks(LineRest, 3)

\* a position with two blanks in each minutes field is decoded
C12_Witness ==
  /\ pc = "parsed"
  /\ packet = BodyHeader \o <<33>> \o Str(<<"4", "9", "0", "3", ".", " ", " ", "N", "/", "0", "7", "2", "0", "1", ".", " ", " ", "W", "-">>)
  /\ ret.st = "ok"
  /\ ret.p.PosAmbiguity = 2

\* nine printable characters and then * or _
ObjectGrammar(b) ==
  /\ Len(b) >= 10
  /\ \A i \in 1..9 : b[i] >= 32 /\ b[i] <= 126
  /\ b[10] = 42 \/ b[10] = 95

\* C13: a packet with discriminator ; is decoded only if its body starts
\* with nine printable characters and then * or _; objectName is the nine
\* characters untrimmed, objectAlive is true exactly for *, and on success
\* format is object and objectFormat is uncompressed or compressed.
C13_Object ==
  (pc = "parsed" /\ HasBodyHeader /\ LineDiscriminator = 59) =>
    /\ ~ObjectGrammar(LineRest) =>
         ret.st = "error" /\ ret.err = "invalid format"
    /\ ret.st = "ok" =>
         /\ ObjectGrammar(LineRest)
         /\ ret.p.ObjectName = SubSeq(LineRest, 1, 9)
         /\ ret.p.Alive = (LineRest[10] = 42)
         /\ ret.p.Format = "object"
         /\ ret.p.ObjectFormat \in {"uncompressed", "compressed"}

\* a killed object with a space-padded name and a compressed position
C13_Witness ==
  /\ pc = "parsed"
  /\ HasBodyHeader /\ LineDiscriminator = 59
  /\ ret.st = "ok"
  /\ ret.p.ObjectName[9] = 32
  /\ ~ret.p.Alive
  /\ ret.p.Format = "object"
  /\ ret.p.ObjectFormat = "compressed"

\* the line has the header N0CALL>APRS,WIDE1-1 and a third-party body
ThirdPartyLine == HasBodyHeader /\ LineDiscriminator = 125

\* C14: a third-party body }X with a valid packet X gives format thirdparty
\* and a subPacket equal to the record Parse(X) returns; when Parse(X)
\* fails, the outer Parse fails with the same error.
C14_ThirdParty ==
  (pc = "parsed" /\ ThirdPartyLine) =>
    LET inner == Parse(LineRest, utc)
    IN  /\ inner.st = "ok" =>
             /\ ret.st = "ok"
             /\ ret.p.Format = "thirdparty"
             /\ ret.p.SubPacket = <<inner.p>>
             /\ [ret.p EXCEPT !.SubPacket = <<>>]
                  = [HeaderRecord EXCEPT !.Format = "thirdparty"]
        /\ inner.st = "error" =>
             ret.st = "error" /\ ret.err = inner.err

\* the envelope of a position packet: the subPacket is the decoded position
C14_Witness ==
  /\ pc = "parsed"
  /\ ThirdPartyLine
  /\ ret.st = "ok"
  /\ ret.p.Format = "thirdparty"
  /\ Len(ret.p.SubPacket) = 1
  /\ ret.p.SubPacket[1].Raw = LineRest
  /\ ret.p.SubPacket[1].Format = "uncompressed"

\* C15: the depth of the nested Parse calls made for third-party bodies
\* never exceeds the cap of 8, however many envelopes the line has.
C15_DepthCapped == pc = "parsed" => ret.depth <= 8

\* a line whose body is a message with a 9-character addressee that is
\* neither a bulletin nor an announcement, and the text after the addressee
AddressedLine ==
  /\ HasBodyHeader /\ LineDiscriminator = 58
  /\ AddresseeRe(LineRest)
  /\ ~BulletinRe(LineRest) /\ ~AnnouncementRe(LineRest)

AddressedText == From(LineRest, 10)

\* the error parseTelemetryConfig returns for the text of the line
TelemetryError == parseTelemetryConfig(ZeroParsed, AddressedText).err

\* C16: every telemetry-definition error inside a message body (a PARM or
\* UNIT name of more than 20 characters, an EQNS value that is not a number,
\* a malformed BITS field) makes Parse return that error; the line is never
\* returned as a decoded message.
C16_TelemetryErrorReturned ==
  (pc = "parsed" /\ AddressedLine /\ TelemetryError # NoErr) =>
    (ret.st = "error" /\ ret.err = TelemetryError)

\* the tags {MM} and {MM}AA, and the tag { followed by 1 to 5 alphanumerics
NewTag(tag) ==
  /\ Len(tag) \in {4, 6}
  /\ tag[1] = 123 /\ IsAlnum(tag[2]) /\ IsAlnum(tag[3]) /\ tag[4] = 125
  /\ \A k \in 5..Len(tag) : IsAlnum(tag[k])

OldTag(tag) ==
  /\ Len(tag) \in 2..6
  /\ tag[1] = 123
  /\ \A k \in 2..Len(tag) : IsAlnum(tag[k])

\* the number a text made of ack or rej and a number carries: 1 to 5
\* alphanumerics, or MM} with an optional AA
AckNumber(t) ==
  /\ Len(t) >= 4
  /\ SubSeq(t, 1, 3) \in {Str(<<"a", "c", "k">>), Str(<<"r", "e", "j">>)}
  /\ \/ Len(t) <= 8 /\ \A k \in 4..Len(t) : IsAlnum(t[k])
     \/ /\ Len(t) \in {6, 8} /\ IsAlnum(t[4]) /\ IsAlnum(t[5]) /\ t[6] = 125
        /\ \A k \in 7..Len(t) : IsAlnum(t[k])

\* the text of the line cut in two after its first i characters
TextBefore(i) == SubSeq(AddressedText, 1, i)
TagFrom(i) == SubSeq(AddressedText, i + 1, Len(AddressedText))

\* C17: for a generic message whose text ends in a tag {MM}, {MM}AA or
\* { and 1 to 5 alphanumerics, msgNo is the number of the tag, ackMsgNo is AA
\* when present, and messageText is the text before the tag with the
\* surrounding spaces trimmed; a text that is exactly ack or rej and a number
\* sets response and msgNo and leaves messageText empty.
C17_MessageNumber ==
  (pc = "parsed" /\ AddressedLine /\ ret.st = "ok") =>
    /\ \A i \in 0..Len(AddressedText) :
         /\ NewTag(TagFrom(i)) =>
              /\ ret.p.MsgNo = SubSeq(TagFrom(i), 2, 3)
              /\ ret.p.AckMsgNo = SubSeq(TagFrom(i), 5, Len(TagFrom(i)))
              /\ ret.p.MessageText = Trim(TextBefore(i), {32})
         /\ OldTag(TagFrom(i)) =>
              /\ ret.p.MsgNo = Tail(TagFrom(i))
              /\ ret.p.AckMsgNo = <<>>
              /\ ret.p.MessageText = Trim(TextBefore(i), {32})
    /\ AckNumber(AddressedText) =>
         /\ ret.p.Response = SubSeq(AddressedText, 1, 3)
         /\ ret.p.MsgNo =
              IF Len(AddressedText) >= 6 /\ AddressedText[6] = 125
              THEN SubSeq(AddressedText, 4, 5)
              ELSE SubSeq(AddressedText, 4, Len(AddressedText))
         /\ ret.p.MessageText = <<>>

C17_Witness ==
  /\ pc = "parsed" /\ AddressedLine /\ ret.st = "ok"
  /\ \E i \in 1..Len(AddressedText) :
       /\ NewTag(TagFrom(i)) /\ Len(TagFrom(i)) = 6
       /\ ret.p.MessageText = TextBefore(i) /\ ret.p.AckMsgNo # <<>>

\* the line has the header N0CALL>APRS,WIDE1-1 and a body / or @ that
\* starts with six digits and a format byte other than h, z and /
OtherFormStamp ==
  /\ HasBodyHeader /\ LineDiscriminator \in {47, 64}
  /\ Len(LineRest) >= 7
  /\ \A k \in 1..6 : IsDigit(LineRest[k])
  /\ LineRest[7] \notin {104, 122, 47, 10}

\* the same line without its timestamp: ! for /, = for @, then the
\* characters after the timestamp
Unstamped ==
  BodyHeader \o <<IF LineDiscriminator = 47 THEN 33 ELSE 61>>
             \o SubSeq(LineRest, 8, Len(LineRest))

\* C18: a position timestamp whose format byte is not h, z or / gives
\* timestamp 0 without an error: the 7 characters are consumed, rawTimestamp
\* holds them, and the rest is decoded as the coordinate body, with the
\* outcome the line has without the timestamp; when nothing follows the
\* timestamp, the error is the one of the coordinate decoder for an empty
\* body, not a timestamp error.
C18_OtherFormByte ==
  (pc = "parsed" /\ OtherFormStamp) =>
    /\ Len(LineRest) = 7 =>
         (ret.st = "error" /\ ret.err = "invalid compressed format")
    /\ Len(LineRest) > 7 =>
         LET plain == Parse(Unstamped, utc)
         IN  /\ ret.st = plain.st
             /\ ret.err = plain.err
             /\ ret.st = "ok" =>
                  ret.p = [plain.p EXCEPT
                             !.Raw = packet,
                             !.RawTimestamp = SubSeq(LineRest, 1, 7),
                             !.Timestamp = 0]

C18_Witness ==
  /\ pc = "parsed" /\ OtherFormStamp /\ ret.st = "ok"
  /\ ret.p.RawTimestamp = SubSeq(LineRest, 1, 7) /\ ret.p.Timestamp = 0
  /\ ret.p.Format \in {"uncompressed", "compressed"}
  /\ ret.p.Symbol # <<>>

\* the line has the header N0CALL>APRS,WIDE1-1 and a body / or @ that
\* starts with six digits DDHHMM and the format byte z or /, and is decoded
DayHourMinuteStamp ==
  /\ HasBodyHeader /\ LineDiscriminator \in {47, 64}
  /\ Len(LineRest) >= 7
  /\ \A k \in 1..6 : IsDigit(LineRest[k])
  /\ LineRest[7] \in {122, 47}
  /\ ret.st = "ok"

\* the two digits of the timestamp that start at position k
StampField(k) == 10 * (LineRest[k] - 48) + (LineRest[k + 1] - 48)

\* the days from 1970-01-01 to the first day of the month the clock shows
MonthStart ==
  IF utc.year = 2026 /\ utc.month = 11 THEN 20758
  ELSE IF utc.year = 2024 /\ utc.month = 2 THEN 19754
  ELSE -1

\* DD is a day of the month the clock shows, HH an hour, MM a minute
StampInRange ==
  /\ StampField(1) >= 1
  /\ StampField(1) <= (IF utc.month = 11 THEN 30 ELSE 29)
  /\ StampField(3) <= 23 /\ StampField(5) <= 59

\* C24 as stated: for the z and / forms DDHHMM the epoch second is the
\* current UTC year and month with day DD and hour HH and the minute forced
\* to 00, so two timestamps that differ only in MM decode to the same value.
C24_MinuteForcedToZero ==
  (pc = "parsed" /\ DayHourMinuteStamp /\ StampInRange) =>
    ret.p.Timestamp =
      (MonthStart + StampField(1) - 1) * 86400 + StampField(3) * 3600

\* C24 amended: for the z and / forms DDHHMM the epoch second is the
\* current UTC year and month with day DD, hour HH and minute MM and the
\* second forced to 00, so two timestamps that differ only in MM decode to
\* values that differ by 60 seconds for each minute; a DD, HH or MM out of
\* range gives timestamp 0.
C24_SecondForcedToZero ==
  (pc = "parsed" /\ DayHourMinuteStamp) =>
    ret.p.Timestamp =
      IF StampInRange
      THEN (MonthStart + StampField(1) - 1) * 86400 + StampField(3) * 3600
           + StampField(5) * 60
      ELSE 0

\* a timestamp with a minute other than 00, decoded with its minute
C24_Witness ==
  /\ pc = "parsed" /\ DayHourMinuteStamp /\ StampInRange
  /\ StampField(5) = 45
  /\ ret.p.Timestamp % 3600 = 45 * 60

\* the line is a Mic-E report that is decoded
MicEDecoded ==
  /\ pc = "parsed" /\ ret.st = "ok" /\ ret.p.Format = "mic-e"
  /\ Index(packet, 58) >= 0

\* the Mic-E body: what follows the packet type character
MicEBody == From(packet, Index(packet, 58) + 2)

\* the longitude of the packet before the E/W sign is applied
UnsignedLon == IF ret.p.To[6] >= 80 THEN 0 - ret.p.Lon ELSE ret.p.Lon

\* the longitude degrees of the claim: byte value minus 28, plus 100 when
\* the 5th destination character is at least 0x50, then folded
DegreesOfByte(b, d5) ==
  LET l0 == b - 28
      l1 == IF d5 >= 80 THEN l0 + 100 ELSE l0
  IN  IF l1 \in 180..189 THEN l1 - 80
      ELSE IF l1 \in 190..199 THEN l1 - 190
      ELSE l1

\* C25: the Mic-E longitude degrees are the byte value of the first body
\* character minus 28, plus 100 when the 5th destination character is at
\* least 0x50, then folded (180..189 minus 80, 190..199 minus 190), for every
\* body the Mic-E body grammar accepts.
C25_LongitudeDegrees ==
  MicEDecoded =>
    UnsignedLon - MicELonMinutes(MicEBody, ret.p.PosAmbiguity)
      = 6000 * DegreesOfByte(MicEBody[1], ret.p.To[5])

\* the first three characters of the destination
MessageChars == SubSeq(ret.p.To, 1, 3)

\* one of the three characters is in the class A-K
AnyCustom == \E i \in 1..3 : MessageChars[i] \in 65..75

\* the 3-bit key of the tables: 0 for the class 0-9 or L, 1 for P-Z and,
\* after folding, for A-K
MessageKey ==
  [i \in 1..3 |-> IF IsDigit(MessageChars[i]) \/ MessageChars[i] = 76
                  THEN 48 ELSE 49]

\* C26: for every Mic-E packet that decodes successfully the message type
\* is a defined entry of one of the two 8-entry tables, the custom table
\* (after folding 2 to 1) when any of the first three destination characters
\* is in A-K and the standard table otherwise; it is Emergency exactly when
\* all three characters are in the class 0-9 or L, and it is never empty.
C26_MessageType ==
  MicEDecoded =>
    /\ \A i \in 1..3 : IsDigit(MessageChars[i]) \/ MessageChars[i] \in 65..90
    /\ MessageKey \in DOMAIN MtypeTableStd \cap DOMAIN MtypeTableCustom
    /\ ret.p.MType = IF AnyCustom THEN MtypeTableCustom[MessageKey]
                     ELSE MtypeTableStd[MessageKey]
    /\ (ret.p.MType = "Emergency") <=>
         (\A i \in 1..3 : IsDigit(MessageChars[i]) \/ MessageChars[i] = 76)
    /\ ret.p.MType # ""

\* a decoded packet whose type comes from the custom table through a key
\* that had a 2 in it
C26_Witness ==
  /\ MicEDecoded /\ AnyCustom
  /\ ret.p.MBits = <<50, 50, 48>>
  /\ ret.p.MType = "C1: Custom-1"

\* the line is a positionless weather report, or a position report with
\* the weather symbol, that reaches the weather token scanner
WxLine ==
  /\ HasBodyHeader
  /\ \/ LineDiscriminator = 95 /\ WeatherRe(LineRest)
     \/ LineDiscriminator = 33 /\ NormalRe(LineRest) /\ LineRest[19] = 95

\* the weather data handed to the token scanner
WxBody ==
  IF LineDiscriminator = 95 THEN From(LineRest, 8)
  ELSE parseDataExtensions(From(LineRest, 19))

\* the weather data starts with a wind pair DDD/DDD
HasWindPair(body) == NormalizeWind(body) # body

\* the field names of the claim: the tokens of the data with its wind pair
\* normalized, where an s token is the wind speed only when it is the
\* second token of a normalized pair, and snow otherwise
WxClaimKeys(body) ==
  LET b1 == NormalizeWind(body)
      tokens == WxTokens(SubSeq(b1, 1, WxDataLen(b1, 0)), 0)
  IN  [i \in DOMAIN tokens |->
         IF tokens[i][1] = 115
         THEN (IF HasWindPair(body) /\ i = 2 THEN "windSpeed" ELSE "snow")
         ELSE keyMap[tokens[i][1]]]

\* C27: the only s token the weather token scanner reads as wind speed is
\* the one produced by normalizing a leading DDD/DDD pair into cDDDsDDD;
\* every other token with key s is stored in the snow field, also when the
\* weather data has no leading wind pair.
C27_SnowUnlessNormalized ==
  (pc = "parsed" /\ WxLine) =>
    /\ ret.st = "ok"
    /\ WxStoreKeys(WxNormalized(WxBody)) = WxClaimKeys(WxBody)

(***************************************************************************)
(* Properties of the cache of compiled patterns                            *)
(***************************************************************************)
\* C19: under any interleaving of concurrent Get calls, each pattern text
\* is compiled at most once, and every Get call for the same pattern text
\* returns the same compiled instance.
C19_CompiledOnce ==
  \A e \in Patterns :
    /\ compiles[e] <= 1
    /\ Cardinality(returned[e]) <= 1
    /\ \A g \in Goroutines :
         (getters[g].pc = "unlock" /\ getters[g].expr = e) =>
           returned[e] \subseteq {getters[g].re}

\* two calls for one pattern have returned, a third waits for the mutex
\* that a call for the other pattern holds
C19_Witness ==
  \E e \in Patterns, g, h \in Goroutines :
    /\ gets >= 3 /\ compiles[e] = 1 /\ returned[e] # {}
    /\ g # h
    /\ getters[g].pc = "lock" /\ getters[g].expr = e
    /\ CompiledRegexps.l = h /\ getters[h].expr # e

(***************************************************************************)
(* Properties of Passcode                                                  *)
(***************************************************************************)
\* the callsign up to its first '-', or all of it
BeforeDash ==
  IF FirstAt(callsignArg, 45) = 0 THEN callsignArg
  ELSE SubSeq(callsignArg, 1, FirstAt(callsignArg, 45) - 1)

\* C20: Passcode ignores the SSID: for a callsign c without '-' and any
\* suffix s, Passcode(c-s) equals Passcode(c); Passcode("N0CALL") is 13023
\* and every result lies in 0..32767.
C20_SSIDIgnored ==
  pc = "passcode" =>
    /\ passcode = Passcode(BeforeDash)
    /\ callsignArg = Str(<<"N", "0", "C", "A", "L", "L">>) => passcode = 13023
    /\ passcode \in 0..32767

C20_Witness ==
  /\ pc = "passcode"
  /\ callsignArg = Str(<<"N", "0", "C", "A", "L", "L", "-", "1", "0">>)
  /\ passcode = 13023

\* the hundredths of a minute a field DD.DD stands for when each of its
\* blanks is read as the digit 5
FivesForBlanks(min) ==
  LET digit(k) == IF min[k] = 32 THEN 5 ELSE min[k] - 48
  IN  1000 * digit(1) + 100 * digit(2) + 10 * digit(4) + digit(5)

\* the minutes of a position in 1/6000 degree
MinutesOf(pos) == (IF pos < 0 THEN 0 - pos ELSE pos) % 6000

FirstBlankFive(min) ==
  LET first == CHOOSE k \in 1..5 : min[k] = 32 /\ \A l \in 1..(k - 1) : min[l] # 32
      digit(k) == IF min[k] # 32 THEN min[k] - 48
                  ELSE IF k = first THEN 5 ELSE 0
  IN  1000 * digit(1) + 100 * digit(2) + 10 * digit(4) + digit(5)

CompressedLine ==
  PlainPosition /\ Len(LineRest) = 13 /\ ~NormalRe(LineRest) /\ ret.st = "ok"

\* the c, s and compression type values of the block
LineC == LineRest[11] - 33
LineS == LineRest[12] - 33
LineT == LineRest[13] - 33

\* the compression type has t & 0x18 = 0x10
LineTypeAltitude == LineT >= 0 /\ (LineT \div 8) % 4 = 2

\* how many of altitude, course and speed, radio range the packet has
ExtrasSet(q) ==
  (IF q.Altitude # <<>> THEN 1 ELSE 0)
  + (IF q.Course # 0 \/ q.Speed # <<>> THEN 1 ELSE 0)
  + (IF q.RadioRange # <<>> THEN 1 ELSE 0)

\* C23 as stated: in a compressed position, whenever the compression type
\* has t & 0x18 = 0x10 the altitude is 1.002^(c*91+s) feet and course, speed
\* and radio range are unset; at most one of altitude, course and speed,
\* radio range is set by a 13-character block.
C23_AltitudeWhenever ==
  (pc = "parsed" /\ CompressedLine) =>
    /\ LineTypeAltitude =>
         /\ ret.p.Altitude = <<LineC * 91 + LineS>>
         /\ ret.p.Course = 0 /\ ret.p.Speed = <<>> /\ ret.p.RadioRange = <<>>
    /\ ExtrasSet(ret.p) <= 1

\* C23 amended: the altitude branch is taken whenever t & 0x18 = 0x10 and
\* neither the c byte nor the s byte is a space; when either is a space the
\* block sets none of altitude, course, speed and radio range; at most one
\* of the three is set by a 13-character block.
C23_AltitudeUnlessBlank ==
  (pc = "parsed" /\ CompressedLine) =>
    /\ (LineTypeAltitude /\ LineC # -1 /\ LineS # -1) =>
         /\ ret.p.Altitude = <<LineC * 91 + LineS>>
         /\ ret.p.Course = 0 /\ ret.p.Speed = <<>> /\ ret.p.RadioRange = <<>>
    /\ (LineC = -1 \/ LineS = -1) => ExtrasSet(ret.p) = 0
    /\ ExtrasSet(ret.p) <= 1

\* a block with an altitude type whose c byte would otherwise give a course
C23_Witness ==
  /\ pc = "parsed" /\ CompressedLine /\ LineTypeAltitude
  /\ LineC \in 1..89 /\ LineS > 0
  /\ ret.p.Altitude = <<LineC * 91 + LineS>>
  /\ ret.p.Course = 0 /\ ret.p.Speed = <<>>

(***************************************************************************)
(* Properties of QConstruct                                                *)
(***************************************************************************)
\* C21: QConstruct never modifies the path of the packet it is given: after
\* any call, for every connection type and every drop or trace outcome,
\* p.Path has the same elements in the same order as before; the rewriting
\* is in the returned QResult.Path only.
C21_PathUntouched ==
  pc = "qconstruct" =>
    Elements(qResult.heap, qPacket.Path) = Elements(qHeap, qPacket.Path)

\* a call that rewrote an element of the path in place and appended to it
C21_Witness ==
  /\ pc = "qconstruct" /\ ~qResult.ShouldDrop
  /\ qResult.Path.len > qPacket.Path.len
  /\ \E i \in 1..qPacket.Path.len :
       PathOf(qResult)[i] # Elements(qHeap, qPacket.Path)[i]
  /\ Elements(qResult.heap, qPacket.Path) = Elements(qHeap, qPacket.Path)

\* the parts FROM, PATH and BODY of the packet handed to Replace
ReplaceHead == SplitOnce(rPacket, 58).head
ReplaceBody == SplitOnce(rPacket, 58).tail
ReplaceFrom == SplitOnce(ReplaceHead, 62).head

\* C28: Replace changes only the header path: for every packet
\* FROM>PATH:BODY it returns FROM>NEW:BODY, where NEW is toCall and newPath
\* joined by commas, with the sender and the body unchanged, also when the
\* old path text occurs inside the body or the sender and when the old path
\* is empty.
C28_OnlyThePath ==
  (pc = "replace" /\ rReturn.err = NoErr) =>
    rReturn.str = ReplaceFrom \o <<62>> \o JoinComma(<<rToCall>> \o rNewPath)
                    \o <<58>> \o ReplaceBody

(***************************************************************************)
(* Properties of the client                                                *)
(***************************************************************************)
\* C29: in every interleaving of Close with the receive loop, the receive
\* loop sets a read deadline on or reads from the connection only while the
\* field conn is non-nil; it never uses the connection after Close has
\* closed it and set the field to nil.
C29_UsesWhileSet ==
  \A g \in DOMAIN tasks :
    tasks[g].use.op # "none" =>
      (tasks[g].use.field # 0 /\ tasks[g].use.wasOpen)

\* C30: after the receive loop has ended on a read error it calls Connect
\* at most retryTimes times and not again after a call that returned nil;
\* once Close has set closed, no call of Connect returns nil and no
\* receive, heartbeat or statistics goroutine is started.
C30_Reconnect ==
  [][/\ \A g \in DOMAIN tasks :
          /\ tasks'[g].attempts <= retryTimes
          /\ tasks[g].won => tasks'[g].attempts <= tasks[g].attempts
     /\ closed => (connects' = connects /\ Len(tasks') = Len(tasks))]_vars

\* a receive loop that reconnected at its second attempt, and a later call
\* of Connect that found the client closed
C30_Witness ==
  /\ closed
  /\ \E g \in DOMAIN tasks :
       /\ tasks[g].kind = "receivePackets"
       /\ tasks[g].won /\ tasks[g].attempts = 2 /\ tasks[g].pc = "retried"
  /\ \E h \in DOMAIN tasks :
       /\ tasks[h].kind = "receivePackets"
       /\ tasks[h].res = "client is closed" /\ tasks[h].pc = "retried"

(***************************************************************************)
(* Properties of the Base-91 codec                                         *)
(***************************************************************************)
\* the number of base-91 digits of n (1 for 0), for n below 91^4
Digits91(n) ==
  IF n < 91 THEN 1 ELSE IF n < 8281 THEN 2 ELSE IF n < 753571 THEN 3 ELSE 4

WidthOf(ws) == IF ws = <<>> THEN 1 ELSE ws[1]

\* C3: for a non-negative number n and a width w of at least the number of
\* base-91 digits of n, decoding FromDecimal(n, w) gives n without error,
\* and the encoding is max(w, digits) long with only '!' before the digits.
C3_RoundTrip ==
  (pc = "roundtrip" /\ number >= 0 /\ WidthOf(width) >= Digits91(number)) =>
    /\ encoded.err = NoErr
    /\ decoded.err = NoErr
    /\ decoded.val = number
    /\ Len(encoded.str) = Max(WidthOf(width), Digits91(number))
    /\ \A i \in 1..(Len(encoded.str) - Digits91(number)) : encoded.str[i] = 33

\* 8280 is "{{": both digits are 90, and width 3 pads it to "!{{"
C3_Witness ==
  /\ pc = "roundtrip"
  /\ number = 8280
  /\ width = <<3>>
  /\ encoded.str = <<33, 123, 123>>
  /\ decoded = [val |-> 8280, err |-> NoErr]

\* C4 as stated: a text with a byte outside the half-open range [0x21, 0x7B)
\* is rejected by ToDecimal, so a text containing '{' (0x7B) is rejected.
C4_HalfOpenRejected ==
  (pc \in {"decoded", "roundtrip"}
     /\ \E i \in 1..Len(text) : text[i] < 33 \/ text[i] >= 123)
  => decoded.err # NoErr

\* C4 amended: ToDecimal returns an error exactly for the texts with a byte
\* outside the closed range [0x21, 0x7B]; '{' is the digit 90.
C4_ClosedRangeRejected ==
  pc \in {"decoded", "roundtrip"} =>
    /\ (decoded.err # NoErr) <=>
         (\E i \in 1..Len(text) : text[i] < 33 \/ text[i] > 123)
    /\ text = <<123>> => decoded = [val |-> 90, err |-> NoErr]

\* "A|" holds 0x7C, the first byte above the range, and is rejected
C4_Witness ==
  /\ pc = "decoded"
  /\ text = <<65, 124>>
  /\ decoded.err = "invalid character in sequence"

=============================================================================
